---- MODULE Spec2Model ----
(***************************************************************************)
(* Model of the ranged virtual-file export pipeline of zfs-explorer's      *)
(* backend (backend/src/api/mod.rs, backend/src/ffi/mod.rs):               *)
(*   - parse_range_header        (pure; specification SpecRange)           *)
(*   - resolve_zpl_path_context  (candidate selection; SpecResolve)        *)
(*   - resolve_zpl_path_context  (every step and backend call; SpecPath)  *)
(*   - zpl_path_download / read_objset_bytes (chunk loop; Spec, and       *)
(*     SpecLive with the loop running on to its exit)                      *)
(*   - zpl_path_download from the path to the response (SpecExport)        *)
(*   - ensure_pool / set_mode / FFI_MUTEX (sessions and locks; SpecConc,   *)
(*     and SpecConcLive with the handlers running on to their return)      *)
(*                                                                         *)
(* Strings are sequences of tokens.  A token is one character, except      *)
(* "bytes=" which stands for that six-character prefix, "x" which stands   *)
(* for any other visible character and "<80>" which stands for a byte      *)
(* that is not visible ASCII.                                              *)
(***************************************************************************)
EXTENDS Integers, Sequences, FiniteSets, TLC

VARIABLES
    \* ---- parse_range_header applied to one input (SpecRange)
    hdr,          \* headers.get(RANGE): [present, value]
    total_size,   \* the total_size argument
    rng,          \* Pending before the call, then the Result
    \* ---- resolve_zpl_path_context, dataset selection (SpecResolve)
    zpl_path,     \* the zpl_path argument
    catalog,      \* what pool_datasets answers: [ok, entries]
    res,          \* Pending, then the selected (dataset_name, rel_path) or the ApiError
    candidates,   \* the candidates vector before it is sorted
    \* ---- resolve_zpl_path_context step by step against the backend (SpecPath)
    rpc,          \* where the function is: "start", "catalog", "objset", "walk", "stat", "done"
    calls,        \* the backend calls issued so far: [op, answer]
    pctx,         \* Pending, then the ZplPathContext or the ApiError
    \* ---- one zpl_path_download request (Spec)
    pc,           \* where the handler is: "resolve", "resolved", "ranged", "read", "done"
    headers,      \* the request's Range header: [present, value]
    file,         \* the bytes the backend holds for the object
    ctx,          \* Pending, then the ZplPathContext
    range,        \* Pending, then (start, end, partial)
    offset,       \* read_objset_bytes: offset
    out,          \* read_objset_bytes: out
    reads,        \* the objset_read_data calls issued so far: [offset, max_len, got, answer]
    trueRuns,     \* every call so far returned a non-empty run of file bytes at its offset
    resp,         \* Pending, then the Response or the ApiError
    connected,    \* the client's connection is still open
    \* ---- concurrent requests on the shared AppState (SpecConc)
    mode,         \* state.pool_open: mode
    pool,         \* state.pool: Option<PoolHandle{name, ptr}>
    pool_lock,    \* holder of the state.pool mutex, 0 when free
    ffi_lock,     \* holder of FFI_MUTEX, 0 when free
    sessions,     \* the backend's sessions by pointer: [name, mode, open]
    req,          \* the request each thread serves
    cpc,          \* where each thread is in its handler
    loc,          \* each thread's locals: [mode, ptr, old, ip, held, failed]
    in_ffi        \* the backend function each thread is executing: [op, ptr]

rangeVars == <<hdr, total_size, rng>>
resolveVars == <<zpl_path, catalog, res, candidates, rpc, calls, pctx>>
pipeVars == <<pc, headers, file, ctx, range, offset, out, reads, trueRuns, resp, connected>>
concVars == <<mode, pool, pool_lock, ffi_lock, sessions, req, cpc, loc, in_ffi>>
vars == <<hdr, total_size, rng, zpl_path, catalog, res, candidates, rpc, calls, pctx,
          pc, headers, file, ctx, range, offset, out, reads, trueRuns, resp, connected,
          mode, pool, pool_lock, ffi_lock, sessions, req, cpc, loc, in_ffi>>

(***************************************************************************)
(* Bounds                                                                  *)
(***************************************************************************)
MaxHeaderLen == 4      \* tokens in a Range header value
MaxSize == 3           \* largest total_size handed to parse_range_header
MaxNum == 25           \* largest START, END or N of the range forms checked
MaxPathLen == 5        \* tokens in a requested path
MaxCatalog == 2        \* entries in a dataset catalog
MaxFileLen == 3        \* bytes the backend holds for the exported object
NumThreads == 2        \* requests running concurrently

(***************************************************************************)
(* Program constants, scaled down: one byte of the model stands for        *)
(* 256 KiB, so that a chunk, the cap and a file beyond the cap stay small. *)
(***************************************************************************)
OBJSET_DATA_MAX_LIMIT == 2     \* 1 << 20
ZPL_DOWNLOAD_MAX_BYTES == 3    \* 512 * 1024 * 1024

(***************************************************************************)
(* ApiError: (StatusCode, Json{code, recoverable, ...}).  The message and  *)
(* the hint are text for the user and are left out.                        *)
(***************************************************************************)
api_error_with(status, code, recoverable) ==
    [ok |-> FALSE, status |-> status, code |-> code, recoverable |-> recoverable]

HttpCode(status) ==
    CASE status = 400 -> "HTTP_400"
      [] status = 404 -> "HTTP_404"
      [] status = 416 -> "HTTP_416"
      [] status = 500 -> "HTTP_500"

\* every envelope marked recoverable
api_error_allRecoverable(status) ==
    api_error_with(status, HttpCode(status), TRUE)

\* status.is_client_error() is 400 <= status < 500
api_error(status) ==
    api_error_with(status, HttpCode(status), status >= 400 /\ status < 500)

\* a call that has not returned yet
Pending == [pending |-> TRUE]

\* the variables of a part of the program that a specification does not run
RangeIdle == hdr = [present |-> FALSE, value |-> <<>>] /\ total_size = 0 /\ rng = Pending
ResolveIdle ==
    /\ zpl_path = <<>> /\ catalog = [ok |-> TRUE, entries |-> <<>>] /\ res = Pending
    /\ candidates = <<>> /\ rpc = "idle" /\ calls = <<>> /\ pctx = Pending
ConcIdle ==
    /\ mode = "live" /\ pool = [some |-> FALSE, v |-> <<>>] /\ pool_lock = 0 /\ ffi_lock = 0
    /\ sessions = <<>> /\ req = <<>> /\ cpc = <<>> /\ loc = <<>> /\ in_ffi = <<>>
PipeIdle ==
    /\ pc = "idle" /\ headers = [present |-> FALSE, value |-> <<>>] /\ file = <<>>
    /\ ctx = Pending /\ range = Pending /\ offset = 0 /\ out = <<>> /\ reads = <<>>
    /\ trueRuns = TRUE /\ resp = Pending /\ connected = TRUE

(***************************************************************************)
(* String helpers, as the std library computes them on token sequences     *)
(***************************************************************************)
Digits == <<"0", "1", "2", "3", "4", "5", "6", "7", "8", "9">>
DigitSet == {Digits[i] : i \in 1..10}
DigitVal(c) == (CHOOSE i \in 1..10 : Digits[i] = c) - 1

RECURSIVE TrimStart(_)
TrimStart(s) ==
    IF s # <<>> /\ Head(s) = " " THEN TrimStart(Tail(s)) ELSE s

RECURSIVE TrimEnd(_)
TrimEnd(s) ==
    IF s # <<>> /\ s[Len(s)] = " " THEN TrimEnd(SubSeq(s, 1, Len(s) - 1)) ELSE s

Trim(s) == TrimEnd(TrimStart(s))

Contains(s, c) == \E i \in 1..Len(s) : s[i] = c

\* str::starts_with(prefix)
StartsWith(s, p) == Len(p) <= Len(s) /\ SubSeq(s, 1, Len(p)) = p

\* str::trim_start_matches(pat): removes the prefix repeatedly
RECURSIVE TrimStartMatches(_, _)
TrimStartMatches(s, c) ==
    IF s # <<>> /\ Head(s) = c THEN TrimStartMatches(Tail(s), c) ELSE s

\* str::splitn(2, c): the whole string when c is absent, else the text before
\* and the text after the first c
SplitN2(s, c) ==
    IF ~Contains(s, c) THEN <<s>>
    ELSE LET i == CHOOSE k \in 1..Len(s) : s[k] = c /\ \A j \in 1..(k - 1) : s[j] # c
         IN  <<SubSeq(s, 1, i - 1), SubSeq(s, i + 1, Len(s))>>

\* HeaderValue::to_str fails on a byte that is not visible ASCII
ToStrOk(s) == ~Contains(s, "<80>")

(***************************************************************************)
(* u64::from_str: an optional '+', then one or more decimal digits, and    *)
(* the value must fit 64 bits.  Result: -1 for Err, else the value.        *)
(***************************************************************************)
U64_MAX_DIGITS ==
    <<"1","8","4","4","6","7","4","4","0","7","3","7","0","9","5","5","1","6","1","5">>

RECURSIVE StripZeros(_)
StripZeros(s) == IF Len(s) > 1 /\ Head(s) = "0" THEN StripZeros(Tail(s)) ELSE s

RECURSIVE LexGreater(_, _)
LexGreater(a, b) ==
    IF a = <<>> THEN FALSE
    ELSE IF DigitVal(Head(a)) # DigitVal(Head(b))
         THEN DigitVal(Head(a)) > DigitVal(Head(b))
         ELSE LexGreater(Tail(a), Tail(b))

OverflowsU64(ds) ==
    LET d == StripZeros(ds)
    IN  Len(d) > Len(U64_MAX_DIGITS)
        \/ (Len(d) = Len(U64_MAX_DIGITS) /\ LexGreater(d, U64_MAX_DIGITS))

RECURSIVE DigitsValue(_, _)
DigitsValue(ds, acc) ==
    IF ds = <<>> THEN acc ELSE DigitsValue(Tail(ds), acc * 10 + DigitVal(Head(ds)))

\* u64_from_str reading the empty string as 0
u64_from_str_emptyZero(s) ==
    LET ds == IF StartsWith(s, <<"+">>) THEN Tail(s) ELSE s
    IN  IF ds = <<>> THEN 0
        ELSE IF \E i \in 1..Len(ds) : ds[i] \notin DigitSet THEN -1
        ELSE IF OverflowsU64(ds) THEN -1
        ELSE DigitsValue(ds, 0)

u64_from_str(s) ==
    LET ds == IF StartsWith(s, <<"+">>) THEN Tail(s) ELSE s
    IN  IF ds = <<>> THEN -1
        ELSE IF \E i \in 1..Len(ds) : ds[i] \notin DigitSet THEN -1
        ELSE IF OverflowsU64(ds) THEN -1
        ELSE DigitsValue(ds, 0)

Min(a, b) == IF a <= b THEN a ELSE b
Max(a, b) == IF a >= b THEN a ELSE b

(***************************************************************************)
(* parse_range_header(headers, total_size)                                 *)
(***************************************************************************)
BadRange == api_error_with(400, "BAD_RANGE", TRUE)
RangeNotSatisfiable == api_error_with(416, "RANGE_NOT_SATISFIABLE", TRUE)
RangeOk(s, e, p) == [ok |-> TRUE, start |-> s, end |-> e, partial |-> p]

\* SuffixRange subtracting without the suffix_len >= total_size guard
SuffixRange_underflow(end_raw, size) ==
    LET suffix_len == u64_from_str(end_raw)
    IN  IF suffix_len = -1 THEN BadRange
        ELSE IF suffix_len = 0 THEN RangeNotSatisfiable
        ELSE RangeOk(size - suffix_len, size - 1, TRUE)

SuffixRange(end_raw, size) ==
    LET suffix_len == u64_from_str(end_raw)
    IN  IF suffix_len = -1 THEN BadRange
        ELSE IF suffix_len = 0 THEN RangeNotSatisfiable
        ELSE IF suffix_len >= size THEN RangeOk(0, size - 1, TRUE)
        ELSE RangeOk(size - suffix_len, size - 1, TRUE)

\* StandardRange returning the requested end without clamping it to the size
StandardRange_noClamp(start_raw, end_raw, size) ==
    LET start == u64_from_str(start_raw)
        end == IF end_raw = <<>> THEN size - 1 ELSE u64_from_str(end_raw)
    IN  IF start = -1 THEN BadRange
        ELSE IF end_raw # <<>> /\ end = -1 THEN BadRange
        ELSE IF start >= size \/ start > end THEN RangeNotSatisfiable
        ELSE RangeOk(start, end, TRUE)

\* StandardRange accepting a start equal to the size (> written for >=)
StandardRange_offByOne(start_raw, end_raw, size) ==
    LET start == u64_from_str(start_raw)
        end == IF end_raw = <<>> THEN size - 1 ELSE u64_from_str(end_raw)
    IN  IF start = -1 THEN BadRange
        ELSE IF end_raw # <<>> /\ end = -1 THEN BadRange
        ELSE IF start > size \/ start > end THEN RangeNotSatisfiable
        ELSE RangeOk(start, Min(end, size - 1), TRUE)

StandardRange(start_raw, end_raw, size) ==
    LET start == u64_from_str(start_raw)
        end == IF end_raw = <<>> THEN size - 1 ELSE u64_from_str(end_raw)
    IN  IF start = -1 THEN BadRange
        ELSE IF end_raw # <<>> /\ end = -1 THEN BadRange
        ELSE IF start >= size \/ start > end THEN RangeNotSatisfiable
        ELSE RangeOk(start, Min(end, size - 1), TRUE)

\* NoHeaderRange with the size for the last byte's offset
NoHeaderRange_endIsSize(size) == RangeOk(0, size, FALSE)

\* the request has no Range header: the whole file, not partial
NoHeaderRange(size) ==
    IF size = 0 THEN RangeOk(0, 0, FALSE) ELSE RangeOk(0, size - 1, FALSE)

\* parse_range_header testing total_size == 0 only after the split on '-'
parse_range_header_lateEmpty(h, size) ==
    IF ~h.present
    THEN NoHeaderRange(size)
    ELSE IF ~ToStrOk(h.value) THEN BadRange
    ELSE LET trimmed == Trim(h.value)
             range_expr == Trim(TrimStartMatches(trimmed, "bytes="))
             parts == SplitN2(range_expr, "-")
         IN  IF ~StartsWith(trimmed, <<"bytes=">>) THEN BadRange
             ELSE IF Contains(range_expr, ",") THEN BadRange
             ELSE IF Len(parts) # 2 THEN BadRange
             ELSE IF size = 0 THEN RangeNotSatisfiable
             ELSE LET start_raw == Trim(parts[1])
                      end_raw == Trim(parts[2])
                  IN  IF start_raw = <<>>
                      THEN SuffixRange(end_raw, size)
                      ELSE StandardRange(start_raw, end_raw, size)

\* parse_range_header serving the whole file when the header is not acceptable
parse_range_header_ignoreInvalid(h, size) ==
    LET r == parse_range_header_lateEmpty(h, size)
    IN  IF r.ok THEN r ELSE NoHeaderRange(size)

parse_range_header(h, size) ==
    IF ~h.present
    THEN NoHeaderRange(size)
    ELSE IF ~ToStrOk(h.value) THEN BadRange
    ELSE LET trimmed == Trim(h.value)
             range_expr == Trim(TrimStartMatches(trimmed, "bytes="))
             parts == SplitN2(range_expr, "-")
         IN  IF ~StartsWith(trimmed, <<"bytes=">>) THEN BadRange
             ELSE IF Contains(range_expr, ",") THEN BadRange
             ELSE IF size = 0 THEN RangeNotSatisfiable
             ELSE IF Len(parts) # 2 THEN BadRange
             ELSE LET start_raw == Trim(parts[1])
                      end_raw == Trim(parts[2])
                  IN  IF start_raw = <<>>
                      THEN SuffixRange(end_raw, size)
                      ELSE StandardRange(start_raw, end_raw, size)

(***************************************************************************)
(* Range header values in the three accepted forms                         *)
(***************************************************************************)
\* u64::to_string
RECURSIVE ToDec(_)
ToDec(n) == IF n < 10 THEN <<Digits[n + 1]>> ELSE ToDec(n \div 10) \o <<Digits[(n % 10) + 1]>>

StdHeader(s, e) == <<"bytes=">> \o ToDec(s) \o <<"-">> \o ToDec(e)
OpenHeader(s) == <<"bytes=">> \o ToDec(s) \o <<"-">>
SuffixHeader(n) == <<"bytes=">> \o <<"-">> \o ToDec(n)

(***************************************************************************)
(* SpecRange: parse_range_header on every header of at most MaxHeaderLen   *)
(* tokens and every total_size up to MaxSize                               *)
(***************************************************************************)
HeaderTokens == {"bytes=", "-", ",", " ", "+", "x", "<80>", "0", "1", "2"}

SeqsUpTo(S, n) == UNION {[1..k -> S] : k \in 0..n}

Headers ==
    {[present |-> FALSE, value |-> <<>>]}
        \cup {[present |-> TRUE, value |-> v] : v \in SeqsUpTo(HeaderTokens, MaxHeaderLen)}

InitRange ==
    /\ hdr \in Headers
    /\ total_size \in 0..MaxSize
    /\ rng = Pending
    /\ ResolveIdle
    /\ PipeIdle
    /\ ConcIdle

ParseRange ==
    /\ rng = Pending
    /\ rng' = parse_range_header(hdr, total_size)
    /\ UNCHANGED <<hdr, total_size>>
    /\ UNCHANGED <<resolveVars, pipeVars, concVars>>

NextRange == ParseRange

SpecRange == InitRange /\ [][NextRange]_vars

(***************************************************************************)
(* Properties of parse_range_header (checked under SpecRange)              *)
(***************************************************************************)
Nums == 0..MaxNum

Parsed == rng # Pending

\* C7: every successful result for total_size > 0 has start <= end < total_size,
\* with or without a Range header.
C7_RangeWithinFile ==
    (Parsed /\ rng.ok /\ total_size > 0) =>
        (0 <= rng.start /\ rng.start <= rng.end /\ rng.end < total_size)

C7_Witness ==
    /\ Parsed /\ rng.ok /\ hdr.present
    /\ total_size = 3 /\ rng.start = 1 /\ rng.end = 1

\* C8 as stated: with total_size == 0 every present Range header, whatever its
\* content, gives RANGE_NOT_SATISFIABLE.
C8_AnyHeaderUnsatisfiable ==
    (Parsed /\ total_size = 0 /\ hdr.present) => rng = RangeNotSatisfiable

\* C8 amended: with total_size == 0 a present Range header gives
\* RANGE_NOT_SATISFIABLE exactly when it is visible ASCII, starts (after
\* trimming) with bytes= and holds no comma; every other header gives BAD_RANGE.
WellFormedPrefix(v) ==
    /\ \A i \in 1..Len(v) : v[i] # "<80>"
    /\ \E i \in 1..Len(v) : v[i] = "bytes=" /\ \A j \in 1..(i - 1) : v[j] = " "
    /\ \A i \in 1..Len(v) : v[i] # ","

C8_EmptyFileRange ==
    (Parsed /\ total_size = 0 /\ hdr.present) =>
        rng = IF WellFormedPrefix(hdr.value) THEN RangeNotSatisfiable ELSE BadRange

C8_Witness ==
    /\ Parsed /\ total_size = 0 /\ hdr.present
    /\ hdr.value = <<"bytes=", "x">>
    /\ rng = RangeNotSatisfiable

\* C9: bytes=START-END and bytes=START- (END = total_size - 1): START >= total_size
\* or START > END is RANGE_NOT_SATISFIABLE, otherwise the result is
\* (START, min(END, total_size - 1), true).
StandardExpected(s, e) ==
    IF s >= total_size \/ s > e
    THEN RangeNotSatisfiable
    ELSE RangeOk(s, Min(e, total_size - 1), TRUE)

C9_StandardRange ==
    (Parsed /\ hdr.present /\ StartsWith(hdr.value, <<"bytes=">>)) =>
        \A s \in Nums :
            StartsWith(hdr.value, OpenHeader(s)) =>
                /\ hdr.value = OpenHeader(s) => rng = StandardExpected(s, total_size - 1)
                /\ \A e \in Nums :
                      hdr.value = StdHeader(s, e) => rng = StandardExpected(s, e)

C9_Witness ==
    /\ Parsed /\ hdr.present /\ total_size = 2
    /\ hdr.value = StdHeader(1, 2)
    /\ rng = RangeOk(1, 1, TRUE)

\* C10: bytes=-N with total_size > 0: N == 0 is RANGE_NOT_SATISFIABLE, N >= 1 is
\* (max(0, total_size - N), total_size - 1, true).
C10_SuffixRange ==
    (Parsed /\ hdr.present /\ total_size > 0 /\ StartsWith(hdr.value, <<"bytes=", "-">>)) =>
        \A n \in Nums :
            hdr.value = SuffixHeader(n) =>
                rng = IF n = 0 THEN RangeNotSatisfiable
                      ELSE RangeOk(Max(0, total_size - n), total_size - 1, TRUE)

C10_Witness ==
    /\ Parsed /\ hdr.present /\ total_size = 3
    /\ hdr.value = SuffixHeader(12)
    /\ rng = RangeOk(0, 2, TRUE)

\* C11: with no Range header the result is (0, total_size - 1, false) for
\* total_size > 0 and (0, 0, false) for total_size == 0: never an error, never
\* partial.
C11_NoHeaderWholeFile ==
    (Parsed /\ ~hdr.present) =>
        /\ rng.ok /\ ~rng.partial /\ rng.start = 0
        /\ total_size > 0 => rng.end = total_size - 1
        /\ total_size = 0 => rng.end = 0

C11_Witness ==
    /\ Parsed /\ ~hdr.present /\ total_size = 3
    /\ rng = RangeOk(0, 2, FALSE)

\* the three ways a header value is malformed
NotBytes(v) == ~StartsWith(Trim(v), <<"bytes=">>)
HasComma(v) == \E i \in 1..Len(v) : v[i] = ","
\* a number: an optional sign '+', then digits only and at least one
IsNumber(c) ==
    \E k \in 1..Len(c) :
        /\ \A i \in k..Len(c) : c[i] \in DigitSet
        /\ k = 1 \/ (k = 2 /\ c[1] = "+")
\* the text after bytes= has no '-', or its start, end or suffix length is
\* not a number (an omitted END of START- is allowed)
NonNumeric(v) ==
    LET expr == Trim(TrimStartMatches(Trim(v), "bytes="))
        parts == SplitN2(expr, "-")
    IN  \/ Len(parts) # 2
        \/ /\ Len(parts) = 2
           /\ LET a == Trim(parts[1])
                  b == Trim(parts[2])
              IN  \/ a = <<>> /\ ~IsNumber(b)
                  \/ a # <<>> /\ ~IsNumber(a)
                  \/ a # <<>> /\ b # <<>> /\ ~IsNumber(b)

None == [some |-> FALSE, v |-> <<>>]
Some(x) == [some |-> TRUE, v |-> x]

\* dataset_path_match accepting any string prefix, not a whole component
dataset_path_match_rawPrefix(dataset, path) ==
    IF StartsWith(path, dataset)
    THEN Some(TrimStartMatches(SubSeq(path, Len(dataset) + 1, Len(path)), "/"))
    ELSE None

dataset_path_match(dataset, path) ==
    IF path = dataset THEN Some(<<>>)
    ELSE LET prefix == dataset \o <<"/">>
         IN  IF StartsWith(path, prefix)
             THEN Some(SubSeq(path, Len(prefix) + 1, Len(path)))
             ELSE None

mountpoint_path_match(mountpoint, absolute_path) ==
    IF absolute_path = mountpoint THEN Some(<<>>)
    ELSE LET prefix == mountpoint \o <<"/">>
         IN  IF StartsWith(absolute_path, prefix)
             THEN Some(SubSeq(absolute_path, Len(prefix) + 1, Len(absolute_path)))
             ELSE None

Candidate(n, name, rel) == [match_length |-> n, dataset |-> name, rel |-> rel]

\* the candidates one catalog entry pushes: its name match, then its mountpoint match
EntryCandidates(entry, normalized_path, absolute_path) ==
    LET byName == dataset_path_match(entry.name, normalized_path)
        byMount == IF entry.mountpoint.some /\ entry.mounted # "false"
                   THEN mountpoint_path_match(entry.mountpoint.v, absolute_path)
                   ELSE None
    IN  (IF byName.some
         THEN <<Candidate(Len(entry.name), entry.name, byName.v)>> ELSE <<>>)
        \o
        (IF byMount.some
         THEN <<Candidate(Len(entry.mountpoint.v), entry.name, byMount.v)>> ELSE <<>>)

\* the loop over catalog.iter().filter(type == "filesystem")
RECURSIVE Candidates(_, _, _)
Candidates(entries, normalized_path, absolute_path) ==
    IF entries = <<>> THEN <<>>
    ELSE (IF Head(entries).dataset_type = "filesystem"
          THEN EntryCandidates(Head(entries), normalized_path, absolute_path)
          ELSE <<>>)
         \o Candidates(Tail(entries), normalized_path, absolute_path)

\* candidates.sort_by(|a, b| a.0.cmp(&b.0)): ascending instead of descending
RECURSIVE SortByMatchLength_ascending(_)
SortByMatchLength_ascending(c) ==
    IF c = <<>> THEN <<>>
    ELSE LET sorted == SortByMatchLength_ascending(SubSeq(c, 1, Len(c) - 1))
             x == c[Len(c)]
             k == Cardinality({i \in 1..Len(sorted) : sorted[i].match_length <= x.match_length})
         IN  SubSeq(sorted, 1, k) \o <<x>> \o SubSeq(sorted, k + 1, Len(sorted))

\* candidates.sort_by(|a, b| b.0.cmp(&a.0)): a stable sort, longest match first
RECURSIVE SortByMatchLength(_)
SortByMatchLength(c) ==
    IF c = <<>> THEN <<>>
    ELSE LET sorted == SortByMatchLength(SubSeq(c, 1, Len(c) - 1))
             x == c[Len(c)]
             k == Cardinality({i \in 1..Len(sorted) : sorted[i].match_length >= x.match_length})
         IN  SubSeq(sorted, 1, k) \o <<x>> \o SubSeq(sorted, k + 1, Len(sorted))

InvalidPath == api_error_with(400, "INVALID_PATH", TRUE)
DatasetPathUnresolved == api_error_with(400, "DATASET_PATH_UNRESOLVED", TRUE)
\* load_dataset_catalog's error: the code string is pool_open_error_code(err_code)
CatalogFailed == api_error_with(500, "POOL_ERROR_CODE", FALSE)
Selected(name, rel) == [ok |-> TRUE, dataset_name |-> name, rel_path |-> rel]

AbsolutePath(trimmed) == IF StartsWith(trimmed, <<"/">>) THEN trimmed ELSE <<"/">> \o trimmed

\* the relative form keeping its leading slashes
NormalizedPath_keepSlash(trimmed) == trimmed

NormalizedPath(trimmed) == TrimStartMatches(trimmed, "/")

\* the candidates vector of a call, empty when the function returned before the loop
candidates_of(path, cat) ==
    IF Trim(path) = <<>> \/ ~cat.ok THEN <<>>
    ELSE Candidates(cat.entries, NormalizedPath(Trim(path)), AbsolutePath(Trim(path)))

select_dataset(path, cat) ==
    LET trimmed == Trim(path)
        sorted == SortByMatchLength(
                      Candidates(cat.entries, NormalizedPath(trimmed), AbsolutePath(trimmed)))
    IN  IF trimmed = <<>> THEN InvalidPath
        ELSE IF ~cat.ok THEN CatalogFailed
        ELSE IF sorted = <<>> THEN DatasetPathUnresolved
        ELSE Selected(sorted[1].dataset, sorted[1].rel)

(***************************************************************************)
(* SpecResolve: the dataset selection on every path of at most MaxPathLen  *)
(* tokens and every catalog of at most MaxCatalog of the entries below     *)
(***************************************************************************)
Entry(name, type, mountpoint, mounted) ==
    [name |-> name, dataset_type |-> type, mountpoint |-> mountpoint, mounted |-> mounted]

\* the pool is "a"; mounted is Option<bool>: "none", "true" or "false"
CatalogEntries ==
    { Entry(<<"a">>, "filesystem", Some(<<"/", "a">>), "none"),
      Entry(<<"a">>, "filesystem", Some(<<"/">>), "true"),
      Entry(<<"a", "/", "b">>, "filesystem", Some(<<"/", "a", "/", "b">>), "true"),
      Entry(<<"a", "/", "b">>, "filesystem", Some(<<"/", "b">>), "none"),
      Entry(<<"a", "/", "b">>, "filesystem", Some(<<"/", "a">>), "false"),
      Entry(<<"a", "/", "a">>, "filesystem", None, "none"),
      Entry(<<"a", "/", "b">>, "volume", Some(<<"/", "a", "/", "b">>), "none"),
      Entry(<<"a", "/", "b">>, "volume", None, "none") }

PathTokens == {"/", "a", "b"}

Paths ==
    SeqsUpTo(PathTokens, MaxPathLen) \cup {<<" ">>, <<" ", "a", " ">>, <<" ", "/", "a">>}

InitResolve ==
    /\ zpl_path \in Paths
    /\ catalog \in {[ok |-> FALSE, entries |-> <<>>]}
                     \cup {[ok |-> TRUE, entries |-> e] : e \in SeqsUpTo(CatalogEntries, MaxCatalog)}
    /\ res = Pending
    /\ candidates = <<>> /\ rpc = "idle" /\ calls = <<>> /\ pctx = Pending
    /\ RangeIdle
    /\ PipeIdle
    /\ ConcIdle

SelectDataset ==
    /\ res = Pending
    /\ res' = select_dataset(zpl_path, catalog)
    /\ candidates' = candidates_of(zpl_path, catalog)
    /\ UNCHANGED <<zpl_path, catalog, rpc, calls, pctx>>
    /\ UNCHANGED <<rangeVars, pipeVars, concVars>>

NextResolve == SelectDataset

SpecResolve == InitResolve /\ [][NextResolve]_vars

(***************************************************************************)
(* Properties of the dataset selection (checked under SpecResolve)         *)
(***************************************************************************)
\* every (match_length, dataset, rel) the catalog yields for the path, by the
\* matching rule itself: a filesystem entry whose name, or whose mountpoint when
\* it is not mounted == false, is a whole-component prefix of the path
AllCandidates ==
    LET es == {catalog.entries[i] : i \in 1..Len(catalog.entries)}
        fs == {e \in es : e.dataset_type = "filesystem"}
        norm == NormalizedPath(Trim(zpl_path))
        abs == AbsolutePath(Trim(zpl_path))
    IN  {Candidate(Len(e.name), e.name, dataset_path_match(e.name, norm).v) :
            e \in {x \in fs : dataset_path_match(x.name, norm).some}}
        \cup
        {Candidate(Len(e.mountpoint.v), e.name, mountpoint_path_match(e.mountpoint.v, abs).v) :
            e \in {x \in fs : /\ x.mountpoint.some
                               /\ x.mounted # "false"
                               /\ mountpoint_path_match(x.mountpoint.v, abs).some}}

Resolved == res # Pending

\* C3: the selected candidate has the largest match_length of all candidates
\* (name and mountpoint candidates together); with no candidate the result is
\* DATASET_PATH_UNRESOLVED.
C3_LongestPrefixWins ==
    (Resolved /\ Trim(zpl_path) # <<>> /\ catalog.ok) =>
        IF AllCandidates = {}
        THEN res = DatasetPathUnresolved
        ELSE /\ res.ok
             /\ \E c \in AllCandidates :
                  /\ c.dataset = res.dataset_name
                  /\ c.rel = res.rel_path
                  /\ \A d \in AllCandidates : d.match_length <= c.match_length

\* the child a/b (mounted at /a/b) wins over its parent a (mounted at /a)
C3_Witness ==
    /\ Resolved
    /\ zpl_path = <<"/", "a", "/", "b">>
    /\ Len(catalog.entries) = 2
    /\ catalog.entries[1].name = <<"a">>
    /\ catalog.entries[1].mountpoint = Some(<<"/", "a">>)
    /\ catalog.entries[2].name = <<"a", "/", "b">>
    /\ catalog.entries[2].mountpoint = Some(<<"/", "a", "/", "b">>)
    /\ catalog.entries[2].dataset_type = "filesystem"
    /\ res = Selected(<<"a", "/", "b">>, <<>>)

\* two results select the same dataset and relative path, or neither selects
SameSelection(r1, r2) == (r1.ok <=> r2.ok) /\ (r1.ok => r1 = r2)

\* C17 as stated: for every catalog and every path p without a leading slash,
\* p and "/" + p select the same dataset and the same relative path.
C17_SlashFormsAlwaysAgree ==
    (Resolved /\ ~StartsWith(zpl_path, <<"/">>)) =>
        SameSelection(res, select_dataset(<<"/">> \o zpl_path, catalog))

\* C17 amended: for every catalog and every non-empty path p that begins
\* neither with a slash nor with whitespace, p and "/" + p give the same
\* result: the same dataset and relative path, or the same error.
C17_SlashFormsAgree ==
    (Resolved /\ zpl_path # <<>> /\ Head(zpl_path) \notin {"/", " "}) =>
        res = select_dataset(<<"/">> \o zpl_path, catalog)

\* a/b/a against the dataset a/b, which has no mountpoint match
C17_Witness ==
    /\ Resolved
    /\ zpl_path = <<"a", "/", "b", "/", "a">>
    /\ Len(catalog.entries) = 1
    /\ catalog.entries[1].name = <<"a", "/", "b">>
    /\ catalog.entries[1].dataset_type = "filesystem"
    /\ res = Selected(<<"a", "/", "b">>, <<"a">>)
    /\ select_dataset(<<"/", "a", "/", "b", "/", "a">>, catalog) = res

\* what remains of path after prefix as whole components: the empty string when
\* they are equal, r when path = prefix + "/" + r, nothing otherwise
Remainders(prefix, path) ==
    {r \in {SubSeq(path, k, Len(path)) : k \in 1..(Len(path) + 1)} :
        \/ r = <<>> /\ path = prefix
        \/ path = prefix \o <<"/">> \o r}

CandidateSet == {candidates[i] : i \in 1..Len(candidates)}

\* C18: the candidates are exactly: for each filesystem entry, (len(name), name,
\* rel) when the relative path is name, or name + "/" + rel; and (len(mountpoint),
\* name, rel) when the entry has a mountpoint, is not mounted == false, and the
\* absolute path is the mountpoint, or mountpoint + "/" + rel.  A partial
\* component and a volume entry give none.
C18_CandidatesOnComponentPrefix ==
    (Resolved /\ Trim(zpl_path) # <<>> /\ catalog.ok) =>
        LET es == {catalog.entries[i] : i \in 1..Len(catalog.entries)}
            fs == {e \in es : e.dataset_type = "filesystem"}
            rel == TrimStartMatches(Trim(zpl_path), "/")
            abs == IF Head(Trim(zpl_path)) = "/" THEN Trim(zpl_path)
                   ELSE <<"/">> \o Trim(zpl_path)
            byName == UNION {{Candidate(Len(e.name), e.name, r) :
                                  r \in Remainders(e.name, rel)} : e \in fs}
            byMount == UNION {{Candidate(Len(e.mountpoint.v), e.name, r) :
                                  r \in Remainders(e.mountpoint.v, abs)} :
                              e \in {x \in fs : x.mountpoint.some /\ x.mounted # "false"}}
        IN  CandidateSet = byName \cup byMount

\* ab/a against the dataset a mounted at /a: no candidate; a/b: both candidates
C18_Witness ==
    /\ Resolved
    /\ zpl_path = <<"a", "/", "b">>
    /\ Len(catalog.entries) = 2
    /\ catalog.entries[1] = Entry(<<"a">>, "filesystem", Some(<<"/", "a">>), "none")
    /\ catalog.entries[2].dataset_type = "volume"
    /\ candidates = <<Candidate(1, <<"a">>, <<"b">>), Candidate(2, <<"a">>, <<"b">>)>>

(***************************************************************************)
(* SpecPath: resolve_zpl_path_context step by step, for the pool "a",      *)
(* against a backend that answers each call with any of its answers        *)
(***************************************************************************)
Call(op, answer) == [op |-> op, answer |-> answer]

\* split_clean_path(suffix).len(): the non-empty segments between slashes
RECURSIVE NumComponents(_)
NumComponents(s) ==
    IF s = <<>> THEN 0
    ELSE IF Head(s) = "/" THEN NumComponents(Tail(s))
    ELSE IF Len(s) = 1 \/ s[2] = "/" THEN 1 + NumComponents(Tail(s))
    ELSE NumComponents(Tail(s))

ChildrenCalls(ok_calls, last) ==
    [i \in 1..(ok_calls + 1) |-> Call("dsl_dir_children", IF i <= ok_calls THEN "ok" ELSE last)]

\* resolve_dataset_dir_obj_by_name: the calls it makes and how it ends
DirObjOutcomes(pool_name, dataset_name) ==
    LET root == Call("dsl_root_dir", "ok")
        n == NumComponents(SubSeq(dataset_name, Len(pool_name) + 2, Len(dataset_name)))
    IN  {[calls |-> <<Call("dsl_root_dir", "err")>>, result |-> api_error(500)]}
        \cup
        (IF dataset_name = pool_name
         THEN {[calls |-> <<root>>, result |-> [ok |-> TRUE]]}
         ELSE IF ~StartsWith(dataset_name, pool_name \o <<"/">>)
         THEN {[calls |-> <<root>>,
                result |-> api_error_with(400, "INVALID_DATASET_PATH", TRUE)]}
         ELSE IF n = 0
         THEN {[calls |-> <<root>>, result |-> [ok |-> TRUE]]}
         ELSE {[calls |-> <<root>> \o ChildrenCalls(k, "err"), result |-> api_error(500)] :
                    k \in 0..(n - 1)}
              \cup
              {[calls |-> <<root>> \o ChildrenCalls(k, "ok"),
                result |-> api_error_with(404, "DATASET_NOT_FOUND", TRUE)] : k \in 0..(n - 1)}
              \cup
              {[calls |-> <<root>> \o ChildrenCalls(n - 1, "ok"), result |-> [ok |-> TRUE]]})

\* resolve_dataset_objset and the objset_id of its payload
ObjsetOutcomes ==
    { [calls |-> <<Call("dsl_dir_head", "err")>>, result |-> api_error(500)],
      [calls |-> <<Call("dsl_dir_head", "ok")>>, result |-> api_error(400)],
      [calls |-> <<Call("dsl_dir_head", "ok"), Call("dataset_objset", "err")>>,
       result |-> api_error(400)],
      [calls |-> <<Call("dsl_dir_head", "ok"), Call("dataset_objset", "err")>>,
       result |-> api_error(500)],
      [calls |-> <<Call("dsl_dir_head", "ok"), Call("dataset_objset", "ok")>>,
       result |-> api_error(500)],
      [calls |-> <<Call("dsl_dir_head", "ok"), Call("dataset_objset", "ok")>>,
       result |-> [ok |-> TRUE]] }

\* what objset_walk and objset_stat may answer
WalkAnswers ==
    {[kind |-> k, found |-> FALSE, remaining |-> <<>>, objid |-> 0] :
        k \in {"err", "no_json", "bad_json"}}
        \cup {[kind |-> "data", found |-> f, remaining |-> r, objid |-> 7] :
                f \in BOOLEAN, r \in {<<>>, <<"a">>}}

StatAnswers ==
    {[kind |-> k, type_name |-> "", size |-> 0] : k \in {"err", "no_json", "bad_json"}}
        \cup {[kind |-> "data", type_name |-> t, size |-> n] :
                t \in {"file", "dir", "symlink"}, n \in {0, 2, ZPL_DOWNLOAD_MAX_BYTES + 1}}

walk_path(rel_path) == IF rel_path = <<>> THEN <<"/">> ELSE <<"/">> \o rel_path

\* walk_outcome looking at found only
walk_outcome_ignoreRemaining(a) ==
    CASE a.kind = "err" -> api_error_with(400, "ZPL_WALK_FAILED", TRUE)
      [] a.kind \in {"no_json", "bad_json"} -> api_error(500)
      [] OTHER -> IF ~a.found
                  THEN api_error_with(404, "PATH_NOT_FOUND", TRUE)
                  ELSE Pending

\* after objset_walk returned: the error, or Pending when the stat comes next
walk_outcome(a) ==
    CASE a.kind = "err" -> api_error_with(400, "ZPL_WALK_FAILED", TRUE)
      [] a.kind \in {"no_json", "bad_json"} -> api_error(500)
      [] OTHER -> IF ~a.found \/ a.remaining # <<>>
                  THEN api_error_with(404, "PATH_NOT_FOUND", TRUE)
                  ELSE Pending

\* after objset_stat returned: the error or the ZplPathContext
stat_outcome(a, sel, objid) ==
    CASE a.kind = "err" -> api_error_with(400, "OBJSET_STAT_FAILED", TRUE)
      [] a.kind \in {"no_json", "bad_json"} -> api_error(500)
      [] OTHER -> IF a.type_name # "file"
                  THEN api_error_with(400, "NOT_A_FILE", TRUE)
                  ELSE [ok |-> TRUE, dataset_name |-> sel.dataset_name,
                        rel_path |-> sel.rel_path, objid |-> objid, file_size |-> a.size]

\* the blank test skipped
is_blank_never(path) == FALSE

\* zpl_path.trim().is_empty()
is_blank(path) == Trim(path) = <<>>

PathInputs ==
    { <<>>, <<" ">>, <<"a">>, <<"a", "/", "b">>, <<"/", "a", "/", "b">>,
      <<"a", "/", "b", "/", "a">>, <<"b", "/", "a">>, <<"a", "/", "<00>">> }

PathCatalogs ==
    { [ok |-> FALSE, entries |-> <<>>],
      [ok |-> TRUE, entries |-> <<>>],
      [ok |-> TRUE, entries |-> <<Entry(<<"a">>, "filesystem", Some(<<"/", "a">>), "none")>>],
      [ok |-> TRUE, entries |-> <<Entry(<<"a">>, "filesystem", Some(<<"/", "a">>), "none"),
                                  Entry(<<"a", "/", "b">>, "filesystem",
                                        Some(<<"/", "a", "/", "b">>), "true")>>],
      [ok |-> TRUE, entries |-> <<Entry(<<"b">>, "filesystem", None, "none")>>] }

InitPath ==
    /\ zpl_path \in PathInputs
    /\ catalog \in PathCatalogs
    /\ res = Pending /\ candidates = <<>>
    /\ rpc = "start" /\ calls = <<>> /\ pctx = Pending
    /\ RangeIdle /\ PipeIdle /\ ConcIdle

\* let trimmed = zpl_path.trim(); if trimmed.is_empty() { return Err(INVALID_PATH) }
CheckPath ==
    /\ rpc = "start"
    /\ IF is_blank(zpl_path)
       THEN pctx' = InvalidPath /\ rpc' = "done"
       ELSE rpc' = "catalog" /\ UNCHANGED pctx
    /\ UNCHANGED <<zpl_path, catalog, res, candidates, calls>>
    /\ UNCHANGED <<rangeVars, pipeVars, concVars>>

\* load_dataset_catalog(pool_ptr)?, the candidates, the sort and the selection
LoadCatalog ==
    /\ rpc = "catalog"
    /\ calls' = Append(calls, Call("pool_datasets", IF catalog.ok THEN "ok" ELSE "err"))
    /\ res' = select_dataset(zpl_path, catalog)
    /\ candidates' = candidates_of(zpl_path, catalog)
    /\ IF res'.ok
       THEN rpc' = "objset" /\ UNCHANGED pctx
       ELSE rpc' = "done" /\ pctx' = res'
    /\ UNCHANGED <<zpl_path, catalog>>
    /\ UNCHANGED <<rangeVars, pipeVars, concVars>>

\* resolve_dataset_dir_obj_by_name(..)?, resolve_dataset_objset(..)?, objset_id
ResolveObjset ==
    /\ rpc = "objset"
    /\ \E d \in DirObjOutcomes(<<"a">>, res.dataset_name) :
          IF ~d.result.ok
          THEN /\ calls' = calls \o d.calls
               /\ pctx' = d.result /\ rpc' = "done"
          ELSE \E o \in ObjsetOutcomes :
                  /\ calls' = calls \o d.calls \o o.calls
                  /\ IF o.result.ok
                     THEN rpc' = "walk" /\ UNCHANGED pctx
                     ELSE rpc' = "done" /\ pctx' = o.result
    /\ UNCHANGED <<zpl_path, catalog, res, candidates>>
    /\ UNCHANGED <<rangeVars, pipeVars, concVars>>

\* objset_walk(pool_ptr, objset_id, &walk_path): Err without a backend call when
\* the path holds a NUL ("<00>"); then the checks on the walk payload
Walk ==
    /\ rpc = "walk"
    /\ IF Contains(walk_path(res.rel_path), "<00>")
       THEN /\ pctx' = api_error(400) /\ rpc' = "done"
            /\ UNCHANGED calls
       ELSE \E a \in WalkAnswers :
               /\ calls' = Append(calls, Call("objset_walk", a))
               /\ IF walk_outcome(a) = Pending
                  THEN rpc' = "stat" /\ UNCHANGED pctx
                  ELSE rpc' = "done" /\ pctx' = walk_outcome(a)
    /\ UNCHANGED <<zpl_path, catalog, res, candidates>>
    /\ UNCHANGED <<rangeVars, pipeVars, concVars>>

\* objset_stat(pool_ptr, objset_id, walk.objid), the type test, the context
Stat ==
    /\ rpc = "stat"
    /\ \E a \in StatAnswers :
          /\ calls' = Append(calls, Call("objset_stat", a))
          /\ pctx' = stat_outcome(a, res, calls[Len(calls)].answer.objid)
    /\ rpc' = "done"
    /\ UNCHANGED <<zpl_path, catalog, res, candidates>>
    /\ UNCHANGED <<rangeVars, pipeVars, concVars>>

NextPath ==
    \/ CheckPath
    \/ LoadCatalog
    \/ ResolveObjset
    \/ Walk
    \/ Stat

SpecPath == InitPath /\ [][NextPath]_vars

(***************************************************************************)
(* Properties of the path resolution (checked under SpecPath)              *)
(***************************************************************************)
WalkCalls == {i \in 1..Len(calls) : calls[i].op = "objset_walk"}
StatCalls == {i \in 1..Len(calls) : calls[i].op = "objset_stat"}
FullyResolved(a) == a.kind = "data" /\ a.found /\ a.remaining = <<>>

\* C19: a context is returned only when the walk reported found with an empty
\* remainder and the stat reported type "file"; a walk error is
\* ZPL_WALK_FAILED, a walk not found or with a remainder is PATH_NOT_FOUND, a
\* type other than file is NOT_A_FILE; no stat is issued unless the walk fully
\* resolved.
C19_ContextOnlyForResolvedFile ==
    /\ \A j \in StatCalls : \E i \in WalkCalls : i < j /\ FullyResolved(calls[i].answer)
    /\ (rpc = "done") =>
          /\ pctx.ok =>
                \E i \in WalkCalls, j \in StatCalls :
                    /\ FullyResolved(calls[i].answer)
                    /\ calls[j].answer.kind = "data" /\ calls[j].answer.type_name = "file"
                    /\ pctx.objid = calls[i].answer.objid
                    /\ pctx.file_size = calls[j].answer.size
          /\ \A i \in WalkCalls :
                LET a == calls[i].answer
                IN  /\ a.kind = "err" => pctx = api_error_with(400, "ZPL_WALK_FAILED", TRUE)
                    /\ (a.kind = "data" /\ (~a.found \/ a.remaining # <<>>)) =>
                          (pctx = api_error_with(404, "PATH_NOT_FOUND", TRUE) /\ StatCalls = {})
          /\ \A j \in StatCalls :
                LET a == calls[j].answer
                IN  (a.kind = "data" /\ a.type_name # "file") =>
                        pctx = api_error_with(400, "NOT_A_FILE", TRUE)

\* a/b/a resolved in the dataset a/b to a plain file of 2 bytes
C19_Witness ==
    /\ rpc = "done" /\ pctx.ok
    /\ zpl_path = <<"a", "/", "b", "/", "a">>
    /\ pctx.dataset_name = <<"a", "/", "b">> /\ pctx.rel_path = <<"a">>
    /\ pctx.file_size = 2
    /\ calls[Len(calls)].op = "objset_stat"

\* C20: an empty or whitespace-only path is INVALID_PATH, and the catalog was
\* not fetched nor any other backend call made for it.
C20_BlankPathBeforeBackend ==
    (rpc = "done" /\ \A i \in 1..Len(zpl_path) : zpl_path[i] = " ") =>
        (pctx = InvalidPath /\ calls = <<>>)

C20_Witness ==
    /\ rpc = "done" /\ zpl_path = <<" ">>
    /\ Len(catalog.entries) = 2
    /\ pctx = InvalidPath /\ calls = <<>>

(***************************************************************************)
(* decode_hex_bytes                                                        *)
(***************************************************************************)
HexChars == <<"0", "1", "2", "3", "4", "5", "6", "7", "8", "9",
              "a", "b", "c", "d", "e", "f">>
UpperHex == <<"A", "B", "C", "D", "E", "F">>

\* fn nibble: -1 for None
nibble(c) ==
    IF \E i \in 1..16 : HexChars[i] = c
    THEN (CHOOSE i \in 1..16 : HexChars[i] = c) - 1
    ELSE IF \E i \in 1..6 : UpperHex[i] = c
    THEN (CHOOSE i \in 1..6 : UpperHex[i] = c) + 9
    ELSE -1

RECURSIVE DecodePairs(_)
DecodePairs(cs) ==
    IF cs = <<>> THEN <<>>
    ELSE <<nibble(cs[1]) * 16 + nibble(cs[2])>> \o DecodePairs(SubSeq(cs, 3, Len(cs)))

BytesOk(b) == [ok |-> TRUE, bytes |-> b]

decode_hex_bytes(data_hex) ==
    LET trimmed == Trim(data_hex)
    IN  IF trimmed = <<>> THEN BytesOk(<<>>)
        ELSE IF Len(trimmed) % 2 # 0 THEN api_error(500)
        ELSE IF \E i \in 1..Len(trimmed) : nibble(trimmed[i]) = -1 THEN api_error(500)
        ELSE BytesOk(DecodePairs(trimmed))

(***************************************************************************)
(* The backend's objset_read_data: what one call may answer                *)
(***************************************************************************)
\* the backend writes a byte as two lower-case hex digits
RECURSIVE ToHex(_)
ToHex(bytes) ==
    IF bytes = <<>> THEN <<>>
    ELSE <<HexChars[(Head(bytes) \div 16) + 1], HexChars[(Head(bytes) % 16) + 1]>>
         \o ToHex(Tail(bytes))

\* non-empty runs of the object's bytes beginning at off: short, exact or one
\* byte longer than max_len
TrueRunPayloads(off, max_len) ==
    {ToHex(SubSeq(file, off + 1, off + k)) : k \in 1..Min(Len(file) - off, max_len + 1)}

ReadAnswer(kind, data_hex) == [kind |-> kind, data_hex |-> data_hex]

\* an error result (its message a user-input one or not), a result without a
\* usable JSON payload, or a payload with some data_hex
ReadAnswers(off, max_len) ==
    {ReadAnswer("err_user", <<>>), ReadAnswer("err_internal", <<>>), ReadAnswer("bad_json", <<>>)}
        \cup {ReadAnswer("data", h) :
                h \in TrueRunPayloads(off, max_len)
                        \cup {<<>>, <<" ">>, <<"0">>, <<"g", "0">>, <<"F", "F">>}}

(***************************************************************************)
(* read_objset_bytes                                                       *)
(***************************************************************************)
\* the cap reported as 413 Payload Too Large
DownloadTooLarge_413 == api_error_with(413, "DOWNLOAD_TOO_LARGE", TRUE)

DownloadTooLarge == api_error_with(400, "DOWNLOAD_TOO_LARGE", TRUE)
ShortRead == api_error_with(500, "SHORT_READ", FALSE)

Total(rg) == rg.end - rg.start + 1

\* read_start without the per-request cap
read_start_noCap(rg) ==
    IF rg.end < rg.start THEN BytesOk(<<>>)
    ELSE [ok |-> TRUE, loop |-> TRUE]

\* the checks before the loop: "loop" when the loop is entered
read_start(rg) ==
    IF rg.end < rg.start THEN BytesOk(<<>>)
    ELSE IF Total(rg) > ZPL_DOWNLOAD_MAX_BYTES THEN DownloadTooLarge
    ELSE [ok |-> TRUE, loop |-> TRUE]

\* a chunk appended whole, however long
truncate_none(bytes, remaining) == bytes

\* bytes.truncate(remaining) when the chunk overruns
truncate(bytes, remaining) ==
    IF Len(bytes) > remaining THEN SubSeq(bytes, 1, remaining) ELSE bytes

\* whatever was accumulated is returned
check_total_none(o, total) == BytesOk(o)

\* after the loop: SHORT_READ unless out.len() == total
check_total(o, total) ==
    IF Len(o) # total THEN ShortRead ELSE BytesOk(o)

\* every call asking for a full chunk
chunk_size_of_fixed(rg, off) == OBJSET_DATA_MAX_LIMIT

\* let remaining = end - offset + 1; let chunk_size = remaining.min(OBJSET_DATA_MAX_LIMIT)
chunk_size_of(rg, off) == Min(rg.end - off + 1, OBJSET_DATA_MAX_LIMIT)

\* the result of the backend call, before decoding
chunk_error(answer) ==
    CASE answer.kind = "err_user" -> api_error(400)
      [] answer.kind = "err_internal" -> api_error(500)
      [] answer.kind = "bad_json" -> api_error(500)
      [] OTHER -> BytesOk(<<>>)

\* bytes.len() of the decoded chunk, -1 when the call gave no chunk
chunk_len(answer) ==
    IF answer.kind = "data" /\ decode_hex_bytes(answer.data_hex).ok
    THEN Len(decode_hex_bytes(answer.data_hex).bytes)
    ELSE -1

\* an iteration that asks again when the backend call or the decoding fails
loop_iteration_retry(answer, off, o, rg) ==
    LET remaining == rg.end - off + 1
        decoded == decode_hex_bytes(answer.data_hex)
        bytes == truncate(decoded.bytes, remaining)
        consumed == Len(bytes)
    IN  IF answer.kind # "data" \/ ~decoded.ok
        THEN [offset |-> off, out |-> o, result |-> Pending]
        ELSE IF decoded.bytes = <<>>
        THEN [offset |-> off, out |-> o, result |-> check_total(o, Total(rg))]
        ELSE IF consumed = 0 \/ off + consumed > rg.end
        THEN [offset |-> off + consumed, out |-> o \o bytes,
              result |-> check_total(o \o bytes, Total(rg))]
        ELSE [offset |-> off + consumed, out |-> o \o bytes, result |-> Pending]

\* an iteration that goes on after an empty chunk
loop_iteration_noBreakOnEmpty(answer, off, o, rg) ==
    LET remaining == rg.end - off + 1
        decoded == decode_hex_bytes(answer.data_hex)
        bytes == truncate(decoded.bytes, remaining)
        consumed == Len(bytes)
    IN  IF answer.kind # "data"
        THEN [offset |-> off, out |-> o, result |-> chunk_error(answer)]
        ELSE IF ~decoded.ok
        THEN [offset |-> off, out |-> o, result |-> decoded]
        ELSE IF off + consumed > rg.end
        THEN [offset |-> off + consumed, out |-> o \o bytes,
              result |-> check_total(o \o bytes, Total(rg))]
        ELSE [offset |-> off + consumed, out |-> o \o bytes, result |-> Pending]

\* one iteration of the while loop on the backend's answer:
\* [offset, out, result], result Pending while the loop goes on
loop_iteration(answer, off, o, rg) ==
    LET remaining == rg.end - off + 1
        decoded == decode_hex_bytes(answer.data_hex)
        bytes == truncate(decoded.bytes, remaining)
        consumed == Len(bytes)
    IN  IF answer.kind # "data"
        THEN [offset |-> off, out |-> o, result |-> chunk_error(answer)]
        ELSE IF ~decoded.ok
        THEN [offset |-> off, out |-> o, result |-> decoded]
        ELSE IF decoded.bytes = <<>>
        THEN [offset |-> off, out |-> o, result |-> check_total(o, Total(rg))]
        ELSE IF consumed = 0 \/ off + consumed > rg.end
        THEN [offset |-> off + consumed, out |-> o \o bytes,
              result |-> check_total(o \o bytes, Total(rg))]
        ELSE [offset |-> off + consumed, out |-> o \o bytes, result |-> Pending]

(***************************************************************************)
(* zpl_path_download: the responses                                        *)
(***************************************************************************)
Response(status, body, content_length, content_range, dataset, relpath) ==
    [ok |-> TRUE, status |-> status, body |-> body,
     accept_ranges |-> "bytes", content_length |-> content_length,
     content_range |-> content_range,
     x_zfs_dataset |-> dataset, x_zfs_relpath |-> relpath]

\* the file_size == 0 short-circuit
EmptyFileResponse == Response(200, <<>>, 0, None, None, None)

\* "bytes {start}-{end}/{file_size}"
ContentRange(rg, size) ==
    <<"bytes", " ">> \o ToDec(rg.start) \o <<"-">> \o ToDec(rg.end) \o <<"/">> \o ToDec(size)

\* HeaderValue::from_str(s).unwrap_or(fallback): from_str fails on a control
\* character ("<0A>" stands for one)
HeaderValueOr(s, fallback) ==
    IF \E i \in 1..Len(s) : s[i] = "<0A>" THEN fallback ELSE s

\* DownloadResponse answering 200 whether partial or not
DownloadResponse_always200(c, rg, bytes) ==
    Response(200,
             bytes,
             rg.end - rg.start + 1,
             IF rg.partial THEN Some(ContentRange(rg, c.file_size)) ELSE None,
             Some(HeaderValueOr(c.dataset_name, <<"unknown">>)),
             Some(HeaderValueOr(c.rel_path, <<"/">>)))

DownloadResponse(c, rg, bytes) ==
    Response(IF rg.partial THEN 206 ELSE 200,
             bytes,
             rg.end - rg.start + 1,
             IF rg.partial THEN Some(ContentRange(rg, c.file_size)) ELSE None,
             Some(HeaderValueOr(c.dataset_name, <<"unknown">>)),
             Some(HeaderValueOr(c.rel_path, <<"/">>)))

\* read_objset_bytes(...)? followed by the response
Respond(c, rg, result) ==
    IF result.ok THEN DownloadResponse(c, rg, result.bytes) ELSE result

(***************************************************************************)
(* Spec: one export request against a backend that answers each bounded    *)
(* read with any of ReadAnswers                                            *)
(***************************************************************************)
FileBytes == {10, 177}

\* what ensure_pool and resolve_zpl_path_context may fail with
ResolveFaults ==
    { InvalidPath, DatasetPathUnresolved, CatalogFailed,
      api_error_with(404, "DATASET_NOT_FOUND", TRUE),
      api_error_with(400, "ZPL_WALK_FAILED", TRUE),
      api_error_with(404, "PATH_NOT_FOUND", TRUE),
      api_error_with(400, "OBJSET_STAT_FAILED", TRUE),
      api_error_with(400, "NOT_A_FILE", TRUE),
      api_error(500) }

FileSizes == 0..(MaxFileLen + 1)

\* the resolved relative path: a plain name, or one holding a control character
RelPaths == {<<"a">>, <<"a", "<0A>">>}

RequestHeaders ==
    {[present |-> FALSE, value |-> <<>>], [present |-> TRUE, value |-> <<"x">>]}
        \cup {[present |-> TRUE, value |-> v] :
                v \in {StdHeader(a, b) : a \in FileSizes, b \in FileSizes}
                        \cup {OpenHeader(a) : a \in FileSizes}
                        \cup {SuffixHeader(n) : n \in FileSizes}}

Init ==
    /\ pc = "resolve"
    /\ headers \in RequestHeaders
    /\ file \in SeqsUpTo(FileBytes, MaxFileLen)
    /\ ctx = Pending /\ range = Pending /\ offset = 0 /\ out = <<>> /\ reads = <<>>
    /\ trueRuns = TRUE /\ resp = Pending /\ connected = TRUE
    /\ RangeIdle /\ ResolveIdle /\ ConcIdle

\* ensure_pool(..)? and resolve_zpl_path_context(..)? fail
ResolveFails ==
    /\ pc = "resolve"
    /\ \E e \in ResolveFaults : resp' = e
    /\ pc' = "done"
    /\ UNCHANGED <<headers, file, ctx, range, offset, out, reads, trueRuns>>
    /\ UNCHANGED <<connected, rangeVars, resolveVars, concVars>>

\* they succeed: the stat reported some size for a plain file
Resolve ==
    /\ pc = "resolve"
    /\ \E size \in FileSizes, rel \in RelPaths :
          ctx' = [dataset_name |-> <<"a", "/", "b">>, rel_path |-> rel, file_size |-> size]
    /\ pc' = "resolved"
    /\ UNCHANGED <<headers, file, range, offset, out, reads, trueRuns, resp>>
    /\ UNCHANGED <<connected, rangeVars, resolveVars, concVars>>

\* the short-circuit never taken
is_empty_file_never(c) == FALSE

\* if ctx.file_size == 0
is_empty_file(c) == c.file_size = 0

\* if ctx.file_size == 0 { ... return Ok(response) }
EmptyFile ==
    /\ pc = "resolved" /\ is_empty_file(ctx)
    /\ resp' = EmptyFileResponse
    /\ pc' = "done"
    /\ UNCHANGED <<headers, file, ctx, range, offset, out, reads, trueRuns>>
    /\ UNCHANGED <<connected, rangeVars, resolveVars, concVars>>

\* parse_range_header(&headers, ctx.file_size)?
ParseRangeHeader ==
    /\ pc = "resolved" /\ ~is_empty_file(ctx)
    /\ LET r == parse_range_header(headers, ctx.file_size)
       IN  IF r.ok
           THEN /\ range' = [start |-> r.start, end |-> r.end, partial |-> r.partial]
                /\ pc' = "ranged"
                /\ UNCHANGED resp
           ELSE /\ resp' = r
                /\ pc' = "done"
                /\ UNCHANGED range
    /\ UNCHANGED <<headers, file, ctx, offset, out, reads, trueRuns>>
    /\ UNCHANGED <<connected, rangeVars, resolveVars, concVars>>

\* read_objset_bytes up to the first iteration of its loop
StartRead ==
    /\ pc = "ranged"
    /\ LET r == read_start(range)
       IN  IF r.ok /\ r = [ok |-> TRUE, loop |-> TRUE]
           THEN /\ pc' = "read"
                /\ offset' = range.start
                /\ out' = <<>>
                /\ UNCHANGED resp
           ELSE /\ pc' = "done"
                /\ resp' = Respond(ctx, range, r)
                /\ UNCHANGED <<offset, out>>
    /\ UNCHANGED <<headers, file, ctx, range, reads, trueRuns>>
    /\ UNCHANGED <<connected, rangeVars, resolveVars, concVars>>

\* one iteration: the backend call and what the loop does with its answer; when
\* the loop ends, the length check and the response
ReadChunk ==
    /\ pc = "read" /\ offset <= range.end
    /\ LET chunk_size == chunk_size_of(range, offset)
       IN  \E answer \in ReadAnswers(offset, chunk_size) :
             LET it == loop_iteration(answer, offset, out, range)
             IN  /\ reads' = Append(reads, [offset |-> offset, max_len |-> chunk_size,
                                            got |-> chunk_len(answer), answer |-> answer])
                 /\ trueRuns' = (trueRuns /\ answer.kind = "data"
                                  /\ answer.data_hex \in TrueRunPayloads(offset, chunk_size))
                 /\ offset' = it.offset
                 /\ out' = it.out
                 /\ IF it.result = Pending
                    THEN UNCHANGED <<pc, resp>>
                    ELSE /\ pc' = "done"
                         /\ resp' = Respond(ctx, range, it.result)
    /\ UNCHANGED <<headers, file, ctx, range>>
    /\ UNCHANGED <<connected, rangeVars, resolveVars, concVars>>

Next ==
    \/ ResolveFails
    \/ Resolve
    \/ EmptyFile
    \/ ParseRangeHeader
    \/ StartRead
    \/ ReadChunk

Spec == Init /\ [][Next]_vars

\* every objset_read_data call returns and the loop goes on to its next
\* iteration: the loop is straight-line code on one thread
SpecLive == Init /\ [][Next]_vars /\ WF_vars(ReadChunk)

(***************************************************************************)
(* SpecExport: the whole handler, resolve_zpl_path_context step by step    *)
(* followed by the range, the chunk loop and the response, while the       *)
(* client may drop the connection                                          *)
(***************************************************************************)
ExportHeaders ==
    { [present |-> FALSE, value |-> <<>>],
      [present |-> TRUE, value |-> <<"x">>],
      [present |-> TRUE, value |-> StdHeader(0, 1)],
      [present |-> TRUE, value |-> SuffixHeader(1)],
      [present |-> TRUE, value |-> SuffixHeader(0)],
      [present |-> TRUE, value |-> OpenHeader(2)] }

ExportFiles == {<<>>, <<10, 177>>}

InitExport ==
    /\ zpl_path \in PathInputs
    /\ catalog \in PathCatalogs
    /\ res = Pending /\ candidates = <<>>
    /\ rpc = "start" /\ calls = <<>> /\ pctx = Pending
    /\ pc = "path"
    /\ headers \in ExportHeaders
    /\ file \in ExportFiles
    /\ ctx = Pending /\ range = Pending /\ offset = 0 /\ out = <<>> /\ reads = <<>>
    /\ trueRuns = TRUE /\ resp = Pending /\ connected = TRUE
    /\ RangeIdle /\ ConcIdle

\* let ctx = resolve_zpl_path_context(pool_ptr, &pool, &zpl_path)?
PathReturns ==
    /\ pc = "path" /\ rpc = "done"
    /\ IF pctx.ok
       THEN /\ ctx' = [dataset_name |-> pctx.dataset_name, rel_path |-> pctx.rel_path,
                       file_size |-> pctx.file_size]
            /\ pc' = "resolved"
            /\ UNCHANGED resp
       ELSE /\ resp' = pctx
            /\ pc' = "done"
            /\ UNCHANGED ctx
    /\ UNCHANGED <<headers, file, range, offset, out, reads, trueRuns, connected>>
    /\ UNCHANGED <<rangeVars, resolveVars, concVars>>

\* the client closes its connection while the handler runs; the handler has no
\* await point and no test of the connection between its calls
Disconnect ==
    /\ connected /\ pc # "done"
    /\ connected' = FALSE
    /\ UNCHANGED <<pc, headers, file, ctx, range, offset, out, reads, trueRuns, resp>>
    /\ UNCHANGED <<rangeVars, resolveVars, concVars>>

NextExport ==
    \/ CheckPath
    \/ LoadCatalog
    \/ ResolveObjset
    \/ Walk
    \/ Stat
    \/ PathReturns
    \/ EmptyFile
    \/ ParseRangeHeader
    \/ StartRead
    \/ ReadChunk
    \/ Disconnect

SpecExport == InitExport /\ [][NextExport]_vars

(***************************************************************************)
(* Properties of the whole handler (checked under SpecExport)              *)
(***************************************************************************)
Done == pc = "done"
ReadReturned == Done /\ range # Pending

\* a Range header that cannot be served from a file of the resolved size
RejectedHeader ==
    /\ ctx # Pending
    /\ ctx.file_size > 0
    /\ headers.present
    /\ \/ headers.value \in {<<"x">>, SuffixHeader(0)}
       \/ \E a \in 0..MaxNum :
            /\ a >= ctx.file_size
            /\ headers.value \in {OpenHeader(a)} \cup {StdHeader(a, b) : b \in 0..MaxNum}

RangeFaultCodes == {"BAD_RANGE", "RANGE_NOT_SATISFIABLE"}

\* C21: the stages run in the order resolve path, validate the range against
\* the resolved file_size, read chunks, respond: the range is settled only for
\* a resolved file and lies inside it, chunks are read only for a settled
\* range, a request whose Range header is rejected ends in BAD_RANGE or
\* RANGE_NOT_SATISFIABLE without any bounded read, and a request whose path
\* does not resolve reports the path fault whatever its Range header is.
C21_StagesInOrder ==
    /\ ctx # Pending => (rpc = "done" /\ pctx.ok /\ ctx.file_size = pctx.file_size)
    /\ range # Pending => (ctx # Pending /\ range.end < ctx.file_size)
    /\ reads # <<>> => range # Pending
    /\ RejectedHeader =>
          /\ reads = <<>> /\ range = Pending
          /\ pc \in {"resolved", "done"}
          /\ Done => (~resp.ok /\ resp.code \in RangeFaultCodes)
    /\ (Done /\ ctx = Pending) =>
          /\ ~resp.ok /\ resp = pctx /\ resp.code \notin RangeFaultCodes
          /\ range = Pending /\ reads = <<>>

\* an unresolvable path together with an invalid Range header
C21_Witness ==
    /\ Done /\ ctx = Pending
    /\ headers = [present |-> TRUE, value |-> <<"x">>]
    /\ resp.code = "PATH_NOT_FOUND"

\* a rejected header on a resolved file
C21_WitnessRejected == Done /\ RejectedHeader /\ resp.code = "RANGE_NOT_SATISFIABLE"

\* a call of the resolution that the backend answered with an error or without
\* a usable payload
CallFailed(c) ==
    IF c.op \in {"objset_walk", "objset_stat"}
    THEN c.answer.kind # "data"
    ELSE c.answer = "err"

\* hex text that is not a whole number of hex-digit pairs
MalformedHex(h) ==
    LET t == Trim(h)
    IN  \/ Len(t) % 2 = 1
        \/ \E i \in 1..Len(t) :
              t[i] \notin {"0", "1", "2", "3", "4", "5", "6", "7", "8", "9",
                           "a", "b", "c", "d", "e", "f", "A", "B", "C", "D", "E", "F"}

\* a bounded read that failed, or whose payload cannot be decoded
ReadFailed(rd) == rd.answer.kind # "data" \/ MalformedHex(rd.answer.data_hex)

\* the request has met a fault
Faulted == (pctx # Pending /\ ~pctx.ok) \/ (resp # Pending /\ ~resp.ok)

\* how often the resolution calls op
CallCount(op) == Cardinality({i \in 1..Len(calls) : calls[i].op = op})

C22_FailedCallIsLast ==
    /\ \A i \in 1..Len(calls) :
          CallFailed(calls[i]) =>
              /\ i = Len(calls) /\ reads = <<>>
              /\ rpc = "done" /\ ~pctx.ok
              /\ Done => (~resp.ok /\ resp = pctx)
    /\ \A i \in 1..Len(reads) :
          ReadFailed(reads[i]) =>
              /\ i = Len(reads)
              /\ Done /\ ~resp.ok
    /\ \A i \in 1..Len(reads) : \A j \in 1..Len(reads) :
          i < j => reads[i].offset < reads[j].offset
    /\ \A op \in {"pool_datasets", "dsl_root_dir", "dsl_dir_head", "dataset_objset",
                  "objset_walk", "objset_stat"} : CallCount(op) <= 1
    /\ CallCount("dsl_dir_children") <= MaxPathLen
    /\ (Done /\ resp.ok) =>
          /\ \A i \in 1..Len(calls) : ~CallFailed(calls[i])
          /\ \A i \in 1..Len(reads) : ~ReadFailed(reads[i])
          /\ range # Pending => Len(resp.body) = Total(range)

C22_NoCallAfterFault == Faulted => (calls' = calls /\ reads' = reads)

\* C22: the request fails fast and never retries: a failed backend call is the
\* last call of the request and the response is an error envelope, never a
\* success with the bytes read so far; no call is repeated (each resolution call
\* is made once, read offsets strictly increase); once a fault is met no
\* further backend call is issued.
C22_FailFastNoRetry == []C22_FailedCallIsLast /\ [][C22_NoCallAfterFault]_vars

\* a chunk read that fails after an earlier chunk was read
C22_Witness ==
    /\ Done /\ Len(reads) = 2
    /\ reads[1].got > 0
    /\ reads[2].answer.kind = "err_internal"
    /\ ~resp.ok

\* the status the interface lists for each named fault
ListedStatus ==
    [c \in {"INVALID_PATH", "DATASET_PATH_UNRESOLVED", "BAD_RANGE", "DOWNLOAD_TOO_LARGE",
            "NOT_A_FILE", "ZPL_WALK_FAILED", "OBJSET_STAT_FAILED"} |-> 400]
    @@ [c \in {"DATASET_NOT_FOUND", "PATH_NOT_FOUND"} |-> 404]
    @@ [c \in {"RANGE_NOT_SATISFIABLE"} |-> 416]
    @@ [c \in {"SHORT_READ"} |-> 500]

HasListedStatus(e) ==
    (e # Pending /\ ~e.ok /\ e.code \in DOMAIN ListedStatus) => e.status = ListedStatus[e.code]

\* C23: each named fault carries the status the interface lists for it, as the
\* outcome of the resolution and as the response of the request.
C23_NamedFaultStatus == HasListedStatus(pctx) /\ HasListedStatus(resp)

\* the cap fault, raised by read_objset_bytes before its loop
C23_Witness ==
    /\ Done /\ range # Pending /\ reads = <<>>
    /\ Total(range) > ZPL_DOWNLOAD_MAX_BYTES
    /\ resp.code = "DOWNLOAD_TOO_LARGE" /\ resp.status = 400

UserInput(e) == e.status \in 400..499 /\ e.recoverable
Internal(e) == e.status = 500 /\ ~e.recoverable

\* the resolution faults of the taxonomy
ResolutionFaultCodes ==
    {"INVALID_PATH", "DATASET_PATH_UNRESOLVED", "DATASET_NOT_FOUND", "ZPL_WALK_FAILED",
     "PATH_NOT_FOUND", "OBJSET_STAT_FAILED", "NOT_A_FILE"}

\* the last bounded read returned a payload that cannot be decoded
LastReadMalformed ==
    /\ reads # <<>>
    /\ reads[Len(reads)].answer.kind = "data"
    /\ MalformedHex(reads[Len(reads)].answer.data_hex)

\* SHORT_READ and a malformed payload are 500 and not recoverable; a rejected
\* Range header is 4xx and recoverable
InternalAndRangeFaults ==
    /\ (Done /\ LastReadMalformed) => (~resp.ok /\ Internal(resp))
    /\ (Done /\ ~resp.ok /\ resp.code = "SHORT_READ") => Internal(resp)
    /\ (Done /\ reads # <<>> /\ ~ReadFailed(reads[Len(reads)]) /\ Len(out) # Total(range)) =>
          (~resp.ok /\ resp.code = "SHORT_READ")
    /\ (Done /\ ~resp.ok /\ resp.code \in RangeFaultCodes) => UserInput(resp)
    /\ (Done /\ RejectedHeader) => (~resp.ok /\ UserInput(resp))

\* C24, as stated: every fault of the resolution is 4xx and recoverable.
C24_EveryResolutionFaultIsUserInput ==
    /\ InternalAndRangeFaults
    /\ (pctx # Pending /\ ~pctx.ok) => UserInput(pctx)

\* C24: SHORT_READ and a malformed backend payload are 500 with recoverable =
\* false; the range faults and the named resolution faults (blank path, no
\* dataset for the path, dataset not found, walk failed, path not found, stat
\* failed, not a file) are 4xx with recoverable = true; a resolution whose
\* catalog cannot be loaded fails with 500 and is not recoverable.
C24_FaultClasses ==
    /\ InternalAndRangeFaults
    /\ (pctx # Pending /\ ~pctx.ok) =>
          /\ pctx.code \in ResolutionFaultCodes => UserInput(pctx)
          /\ UserInput(pctx) \/ Internal(pctx)
    /\ (rpc = "done" /\ calls = <<>>) => (pctx = InvalidPath /\ UserInput(pctx))
    /\ (rpc = "done" /\ calls # <<>>) =>
          LET c == calls[Len(calls)]
          IN  /\ (c.op = "pool_datasets" /\ c.answer = "ok") => UserInput(pctx)
              /\ (c.op = "objset_walk" /\ c.answer.kind \in {"err", "data"}) => UserInput(pctx)
              /\ (c.op = "objset_stat" /\ c.answer.kind = "err") => UserInput(pctx)
              /\ (c.op = "objset_stat" /\ c.answer.kind = "data"
                    /\ c.answer.type_name # "file") => UserInput(pctx)
              /\ (c.op = "pool_datasets" /\ c.answer = "err") => Internal(pctx)

\* a payload with an odd number of hex digits after an earlier chunk was read
C24_Witness ==
    /\ Done /\ Len(reads) = 2
    /\ reads[2].answer = ReadAnswer("data", <<"0">>)
    /\ ~resp.ok /\ resp.status = 500 /\ ~resp.recoverable

\* C26: once the client's connection is dropped, no further chunk read is
\* issued for the request: the read that was in flight finishes and the loop
\* stops at the next iteration boundary.
C26_NoReadAfterDisconnect == [][~connected => reads' = reads]_vars

(***************************************************************************)
(* Properties of the export request (checked under Spec)                   *)
(***************************************************************************)

\* C1: a successful read has assembled exactly end - start + 1 bytes, which is
\* the body and the Content-Length; an empty chunk that arrives before that many
\* bytes were accumulated ends in SHORT_READ, never in a shorter body.
C1_ExactLengthOrShortRead ==
    ReadReturned =>
        /\ resp.ok =>
              /\ Len(resp.body) = range.end - range.start + 1
              /\ resp.content_length = Len(resp.body)
        /\ (reads # <<>> /\ reads[Len(reads)].got = 0
                /\ Len(out) < range.end - range.start + 1) => resp = ShortRead

\* an empty chunk after one byte of a longer range
C1_Witness ==
    /\ ReadReturned
    /\ Len(reads) = 2 /\ reads[1].got = 1 /\ reads[2].got = 0
    /\ Len(out) = 1 /\ range.end - range.start + 1 = 3
    /\ resp = ShortRead

\* C2: when every bounded read returned a non-empty run of the object's bytes
\* at its offset (short, exact or overlong), the body is exactly the bytes
\* start..=end of the object, whatever the chunk boundaries; a read of
\* (0, size - 1) gives the whole object.  (The range is within the per-request
\* cap: the loop ran.)
C2_ChunkedReadRoundTrip ==
    (Done /\ reads # <<>> /\ trueRuns) =>
        /\ resp.ok
        /\ resp.body = SubSeq(file, range.start + 1, range.end + 1)
        /\ (range.start = 0 /\ range.end = Len(file) - 1) => resp.body = file

\* the whole object in two chunks, the first one short
C2_Witness ==
    /\ Done /\ trueRuns /\ ~headers.present
    /\ Len(reads) = 2 /\ reads[1].got = 1 /\ reads[2].got = 2
    /\ Len(file) = 3 /\ ctx.file_size = 3
    /\ resp.ok /\ resp.body = file

\* C13: a range of more than ZPL_DOWNLOAD_MAX_BYTES bytes, from a Range header
\* or from a whole file without one, fails with DOWNLOAD_TOO_LARGE and no
\* bounded read is ever issued for it; a range of exactly the cap is not refused.
C13_TooLargeBeforeAnyRead ==
    /\ (range # Pending /\ Total(range) > ZPL_DOWNLOAD_MAX_BYTES) => reads = <<>>
    /\ ReadReturned =>
          (resp = DownloadTooLarge <=> Total(range) > ZPL_DOWNLOAD_MAX_BYTES)
    /\ (ReadReturned /\ Total(range) = ZPL_DOWNLOAD_MAX_BYTES /\ trueRuns) =>
          (resp.ok /\ Len(resp.body) = ZPL_DOWNLOAD_MAX_BYTES)

\* no Range header, a file one byte over the cap
C13_Witness ==
    /\ ReadReturned /\ ~headers.present
    /\ ctx.file_size = ZPL_DOWNLOAD_MAX_BYTES + 1
    /\ resp = DownloadTooLarge /\ reads = <<>>

\* C14: for a file of size 0 the answer is 200 with an empty body and
\* Content-Length 0 whatever the Range header; the range parser and the bounded
\* read never run.
C14_EmptyFileShortCircuit ==
    (ctx # Pending /\ ctx.file_size = 0) =>
        /\ range = Pending /\ reads = <<>>
        /\ Done => /\ resp.ok /\ resp.status = 200
                   /\ resp.body = <<>> /\ resp.content_length = 0

\* an empty file asked for with a malformed Range header
C14_Witness ==
    /\ Done /\ ctx # Pending /\ ctx.file_size = 0
    /\ headers = [present |-> TRUE, value |-> <<"x">>]
    /\ resp.ok /\ resp.status = 200

\* C15: a successful response is 206 exactly when the range result is partial,
\* which is exactly when a Range header was accepted (even one covering the
\* whole file), and 200 otherwise; it carries Content-Range
\* "bytes {start}-{end}/{file_size}" exactly when partial.
C15_StatusFollowsPartial ==
    (Done /\ resp.ok) =>
        IF range = Pending
        THEN resp.status = 200 /\ resp.content_range = None
        ELSE /\ range.partial <=> headers.present
             /\ resp.status = 206 <=> range.partial
             /\ resp.status = 200 <=> ~range.partial
             /\ range.partial =>
                   resp.content_range =
                       Some(<<"bytes", " ">> \o ToDec(range.start) \o <<"-">>
                                \o ToDec(range.end) \o <<"/">> \o ToDec(ctx.file_size))
             /\ ~range.partial => resp.content_range = None

\* bytes=0-2 of a file of 3 bytes
C15_Witness ==
    /\ Done /\ resp.ok /\ ctx # Pending /\ ctx.file_size = 3
    /\ headers = [present |-> TRUE, value |-> StdHeader(0, 2)]
    /\ resp.status = 206
    /\ resp.content_range = Some(<<"bytes", " ", "0", "-", "2", "/", "3">>)

\* C16: every successful response, the one for an empty file included, carries
\* Accept-Ranges: bytes and the headers exposing the resolved dataset name and
\* the resolved relative path.
C16_ProvenanceOnEverySuccess ==
    (Done /\ resp.ok) =>
        /\ resp.accept_ranges = "bytes"
        /\ resp.x_zfs_dataset = Some(ctx.dataset_name)
        /\ resp.x_zfs_relpath = Some(ctx.rel_path)

(***************************************************************************)
(* SpecConc: NumThreads requests (exports and mode switches) running       *)
(* concurrently on the shared AppState and the backend                     *)
(***************************************************************************)
Threads == 1..NumThreads
PoolNames == {"a", "b"}
Modes == {"live", "offline"}

Requests ==
    {[kind |-> "export", pool |-> n, mode |-> ""] : n \in PoolNames}
        \cup {[kind |-> "set_mode", pool |-> "", mode |-> m] : m \in Modes \cup {"bogus"}}

Locals0 ==
    [mode |-> "live", ptr |-> 0, old |-> 0, ip |-> 1, held |-> 0, failed |-> FALSE,
     changed |-> FALSE]
NoCall == [op |-> "none", ptr |-> 0]

\* the backend calls of an export after ensure_pool, each ZdxResult freed when it
\* is dropped: the catalog; the walk and the stat (both results live to the end
\* of resolve_zpl_path_context); one chunk read.  The calls that resolve the
\* dataset directory and the further chunk reads have the same form.
ExportOps ==
    <<"pool_datasets", "free_result", "objset_walk", "objset_stat", "free_result",
      "free_result", "objset_read_data", "free_result">>

\* the wrappers of ffi/mod.rs, each starting with FFI_MUTEX.lock()
SrcWrappers == {"pool_open", "pool_close", "free_result", "objset_walk", "objset_stat"}
\* wrappers the api calls whose text is not in ffi/mod.rs
MissingWrappers == {"pool_open_offline", "pool_datasets", "objset_read_data"}

\* ZdxResult::drop calling zdx_free_result without the mutex
takes_ffi_mutex_dropUnlocked(op) == op \in (SrcWrappers \cup MissingWrappers) \ {"free_result"}

takes_ffi_mutex(op) == op \in SrcWrappers \cup MissingWrappers

\* let _lock = FFI_MUTEX.lock().unwrap(); unsafe { zdx_...(..) }
FfiEnter(p, op, ptr) ==
    /\ takes_ffi_mutex(op) => ffi_lock = 0
    /\ ffi_lock' = IF takes_ffi_mutex(op) THEN p ELSE ffi_lock
    /\ in_ffi' = [in_ffi EXCEPT ![p] = [op |-> op, ptr |-> ptr]]

\* the backend function returns with the mutex guard leaked
FfiExit_keepLock(p) ==
    /\ ffi_lock' = ffi_lock
    /\ in_ffi' = [in_ffi EXCEPT ![p] = NoCall]

\* the backend function returns and _lock is dropped
FfiExit(p) ==
    /\ ffi_lock' = IF ffi_lock = p THEN 0 ELSE ffi_lock
    /\ in_ffi' = [in_ffi EXCEPT ![p] = NoCall]

\* the old handle dropped without pool_close
after_take_noClose(had_old) == "open"

\* if let Some(old) = guard.take() { pool_close(old.ptr) }, then the open
after_take(had_old) == IF had_old THEN "close" ELSE "open"

\* guard.as_ref() in place of guard.take(): the handle stays in the state
guard_take_peek(g) == g

\* guard.take(): what is left in the Option
guard_take(g) == None

next_op(p) == IF loc[p].failed THEN "free_result" ELSE ExportOps[loc[p].ip]

InitConc ==
    /\ mode \in Modes
    /\ pool = None
    /\ pool_lock = 0 /\ ffi_lock = 0
    /\ sessions = <<>>
    /\ req \in [Threads -> Requests]
    \* the threads are interchangeable: one numbering of each set of requests
    /\ LET rank(r) == IF r.kind = "export"
                      THEN (IF r.pool = "a" THEN 1 ELSE 2)
                      ELSE (CASE r.mode = "live" -> 3 [] r.mode = "offline" -> 4 [] OTHER -> 5)
       IN  \A p, q \in Threads : p < q => rank(req[p]) <= rank(req[q])
    /\ cpc = [p \in Threads |-> "start"]
    /\ loc = [p \in Threads |-> Locals0]
    /\ in_ffi = [p \in Threads |-> NoCall]
    /\ RangeIdle /\ ResolveIdle /\ PipeIdle

\* ensure_pool: let pool_open = pool_open_config(state)
ReadConfig(p) ==
    /\ cpc[p] = "start" /\ req[p].kind = "export"
    /\ loc' = [loc EXCEPT ![p].mode = mode]
    /\ cpc' = [cpc EXCEPT ![p] = "lock"]
    /\ UNCHANGED <<rangeVars, resolveVars, pipeVars, mode, pool, pool_lock, ffi_lock, sessions, req, in_ffi>>

\* ensure_pool: the session for this pool is open: return its pointer
EnsureReuse(p) ==
    /\ cpc[p] = "lock" /\ pool_lock = 0
    /\ pool.some /\ pool.v.name = req[p].pool
    /\ loc' = [loc EXCEPT ![p].ptr = pool.v.ptr]
    /\ cpc' = [cpc EXCEPT ![p] = "calls"]
    /\ UNCHANGED <<rangeVars, resolveVars, pipeVars, mode, pool, pool_lock, ffi_lock, sessions, req, in_ffi>>

\* ensure_pool: no session or another pool's: keep the lock, take the old handle
EnsureTake(p) ==
    /\ cpc[p] = "lock" /\ pool_lock = 0
    /\ ~(pool.some /\ pool.v.name = req[p].pool)
    /\ pool_lock' = p
    /\ pool' = guard_take(pool)
    /\ loc' = [loc EXCEPT ![p].old = IF pool.some THEN pool.v.ptr ELSE 0]
    /\ cpc' = [cpc EXCEPT ![p] = after_take(pool.some)]
    /\ UNCHANGED <<rangeVars, resolveVars, pipeVars, mode, ffi_lock, sessions, req, in_ffi>>

\* pool_close(old.ptr), in ensure_pool and in set_mode
CloseEnter(p) ==
    /\ cpc[p] = "close"
    /\ FfiEnter(p, "pool_close", loc[p].old)
    /\ cpc' = [cpc EXCEPT ![p] = "closing"]
    /\ UNCHANGED <<rangeVars, resolveVars, pipeVars, mode, pool, pool_lock, sessions, req, loc>>

\* zdx_pool_close returns; set_mode then releases the session lock
CloseExit(p) ==
    /\ cpc[p] = "closing"
    /\ FfiExit(p)
    /\ sessions' = [sessions EXCEPT ![loc[p].old].open = FALSE]
    /\ IF req[p].kind = "export"
       THEN cpc' = [cpc EXCEPT ![p] = "open"] /\ UNCHANGED pool_lock
       ELSE cpc' = [cpc EXCEPT ![p] = "reread"] /\ pool_lock' = 0
    /\ UNCHANGED <<rangeVars, resolveVars, pipeVars, mode, pool, req, loc>>

\* ensure_pool: pool_open(pool) or pool_open_offline(pool, ..) by the cloned mode
OpenEnter(p) ==
    /\ cpc[p] = "open"
    /\ FfiEnter(p, IF loc[p].mode = "live" THEN "pool_open" ELSE "pool_open_offline", 0)
    /\ cpc' = [cpc EXCEPT ![p] = "opening"]
    /\ UNCHANGED <<rangeVars, resolveVars, pipeVars, mode, pool, pool_lock, sessions, req, loc>>

\* the open succeeded: *guard = Some(handle); Ok(ptr)
OpenOk(p) ==
    /\ cpc[p] = "opening"
    /\ FfiExit(p)
    /\ sessions' = Append(sessions, [name |-> req[p].pool, mode |-> loc[p].mode, open |-> TRUE])
    /\ pool' = Some([name |-> req[p].pool, ptr |-> Len(sessions) + 1])
    /\ loc' = [loc EXCEPT ![p].ptr = Len(sessions) + 1]
    /\ pool_lock' = 0
    /\ cpc' = [cpc EXCEPT ![p] = "calls"]
    /\ UNCHANGED <<rangeVars, resolveVars, pipeVars, mode, req>>

\* the open failed: the error is returned, the guard dropped
OpenFails(p) ==
    /\ cpc[p] = "opening"
    /\ FfiExit(p)
    /\ pool_lock' = 0
    /\ cpc' = [cpc EXCEPT ![p] = "done"]
    /\ UNCHANGED <<rangeVars, resolveVars, pipeVars, mode, pool, sessions, req, loc>>

\* the next backend call of the export on the pointer ensure_pool returned, or
\* the drop of a ZdxResult
CallEnter(p) ==
    /\ cpc[p] = "calls"
    /\ FfiEnter(p, next_op(p), IF next_op(p) = "free_result" THEN 0 ELSE loc[p].ptr)
    /\ cpc' = [cpc EXCEPT ![p] = "calling"]
    /\ UNCHANGED <<rangeVars, resolveVars, pipeVars, mode, pool, pool_lock, sessions, req, loc>>

\* the call returns a ZdxResult, ok or not; the export stops at the first error
CallReturns(p) ==
    /\ cpc[p] = "calling" /\ in_ffi[p].op # "free_result"
    /\ FfiExit(p)
    /\ \E ok \in BOOLEAN :
          loc' = [loc EXCEPT ![p].held = @ + 1,
                             ![p].ip = IF ok THEN @ + 1 ELSE @,
                             ![p].failed = ~ok]
    /\ cpc' = [cpc EXCEPT ![p] = "calls"]
    /\ UNCHANGED <<rangeVars, resolveVars, pipeVars, mode, pool, pool_lock, sessions, req>>

\* zdx_free_result returns; the handler returns after its last drop
FreeReturns(p) ==
    /\ cpc[p] = "calling" /\ in_ffi[p].op = "free_result"
    /\ FfiExit(p)
    /\ loc' = [loc EXCEPT ![p].held = @ - 1,
                          ![p].ip = IF loc[p].failed THEN @ ELSE @ + 1]
    /\ cpc' = [cpc EXCEPT ![p] =
                  IF (loc[p].failed /\ loc[p].held = 1)
                        \/ (~loc[p].failed /\ loc[p].ip = Len(ExportOps))
                  THEN "done" ELSE "calls"]
    /\ UNCHANGED <<rangeVars, resolveVars, pipeVars, mode, pool, pool_lock, sessions, req>>

\* set_mode: parse the mode, then under the config lock set it if it differs
SetModeConfig(p) ==
    /\ cpc[p] = "start" /\ req[p].kind = "set_mode"
    /\ IF req[p].mode \notin Modes
       THEN cpc' = [cpc EXCEPT ![p] = "done"] /\ UNCHANGED <<mode, loc>>
       ELSE IF mode # req[p].mode
       THEN /\ cpc' = [cpc EXCEPT ![p] = "sm_lock"]
            /\ mode' = req[p].mode
            /\ loc' = [loc EXCEPT ![p].changed = TRUE]
       ELSE cpc' = [cpc EXCEPT ![p] = "reread"] /\ UNCHANGED <<mode, loc>>
    /\ UNCHANGED <<rangeVars, resolveVars, pipeVars, pool, pool_lock, ffi_lock, sessions, req, in_ffi>>

\* set_mode, changed: lock the session, take the handle if there is one
SetModeTake(p) ==
    /\ cpc[p] = "sm_lock" /\ pool_lock = 0
    /\ IF pool.some
       THEN /\ pool_lock' = p
            /\ pool' = guard_take(pool)
            /\ loc' = [loc EXCEPT ![p].old = pool.v.ptr]
            /\ cpc' = [cpc EXCEPT ![p] = "close"]
       ELSE /\ cpc' = [cpc EXCEPT ![p] = "reread"]
            /\ UNCHANGED <<pool_lock, pool, loc>>
    /\ UNCHANGED <<rangeVars, resolveVars, pipeVars, mode, ffi_lock, sessions, req, in_ffi>>

\* set_mode: pool_open_config(&state) for the answer
SetModeReturn(p) ==
    /\ cpc[p] = "reread"
    /\ loc' = [loc EXCEPT ![p].mode = mode]
    /\ cpc' = [cpc EXCEPT ![p] = "done"]
    /\ UNCHANGED <<rangeVars, resolveVars, pipeVars, mode, pool, pool_lock, ffi_lock, sessions, req, in_ffi>>

NextConc ==
    \E p \in Threads :
          \/ ReadConfig(p)
          \/ EnsureReuse(p)
          \/ EnsureTake(p)
          \/ CloseEnter(p)
          \/ CloseExit(p)
          \/ OpenEnter(p)
          \/ OpenOk(p)
          \/ OpenFails(p)
          \/ CallEnter(p)
          \/ CallReturns(p)
          \/ FreeReturns(p)
          \/ SetModeConfig(p)
          \/ SetModeTake(p)
          \/ SetModeReturn(p)

SpecConc == InitConc /\ [][NextConc]_vars

\* the handlers run on the worker threads of the tokio runtime and every backend
\* call returns: a handler that can take a step eventually takes one
SpecConcLive == InitConc /\ [][NextConc]_vars /\ WF_vars(NextConc)

(***************************************************************************)
(* Properties of the sessions and the locks (checked under SpecConc)       *)
(***************************************************************************)
OpenSessions == {i \in 1..Len(sessions) : sessions[i].open}
InBackend == {p \in Threads : in_ffi[p] # NoCall}

\* C4: no backend call is issued on a session pointer after that session has
\* been closed.
C4_NoCallOnClosedSession ==
    \A p \in Threads : in_ffi[p].ptr # 0 => sessions[in_ffi[p].ptr].open

\* C5: no two backend calls (opens, closes and result frees included) execute
\* at the same time.
C5_BackendSerialized == Cardinality(InBackend) <= 1

\* two threads contend: one inside a backend call, another at its next call
C5_Witness ==
    \E p, q \in Threads :
        /\ p # q
        /\ in_ffi[p].op = "objset_read_data"
        /\ cpc[q] = "calls" /\ next_op(q) = "free_result"

\* C6: at most one session is open at any moment; ensure_pool for the pool that
\* is open returns its pointer and closes or opens nothing; ensure_pool for
\* another pool has closed the previous session when it calls the open.
C6_OneSession ==
    [][ /\ Cardinality(OpenSessions') <= 1
        /\ \A p \in Threads :
              /\ (/\ cpc[p] = "lock" /\ cpc'[p] # "lock"
                  /\ pool.some /\ pool.v.name = req[p].pool)
                    => /\ loc'[p].ptr = pool.v.ptr
                       /\ cpc'[p] = "calls"
                       /\ sessions' = sessions /\ pool' = pool
              /\ (cpc[p] = "open" /\ cpc'[p] = "opening") => OpenSessions = {} ]_vars

\* a session for pool b is open after the session for pool a was closed
C6_Witness ==
    /\ Len(sessions) = 2
    /\ sessions[1].name = "a" /\ ~sessions[1].open
    /\ sessions[2].name = "b" /\ sessions[2].open
    /\ pool = Some([name |-> "b", ptr |-> 2])


(***************************************************************************)
(* Properties of the chunk loop (checked under Spec and SpecLive)          *)
(***************************************************************************)
\* C25: the chunk reads of one request are sequential: the first is issued at
\* start, each at start plus the number of bytes accumulated so far, asking for
\* min(remaining, OBJSET_DATA_MAX_LIMIT) >= 1 bytes; the offsets of successive
\* reads strictly increase and never exceed end.
C25_SequentialChunks ==
    /\ reads # <<>> => (range # Pending /\ reads[1].offset = range.start)
    /\ \A i \in 1..Len(reads) :
          /\ reads[i].offset >= range.start /\ reads[i].offset <= range.end
          /\ reads[i].max_len = Min(range.end - reads[i].offset + 1, OBJSET_DATA_MAX_LIMIT)
          /\ reads[i].max_len >= 1
          /\ i < Len(reads) =>
                /\ reads[i].got >= 1
                /\ reads[i + 1].offset = reads[i].offset + reads[i].got
                /\ reads[i + 1].offset > reads[i].offset
    /\ pc = "read" =>
          /\ offset = range.start + Len(out)
          /\ offset <= range.end
          /\ reads # <<>> =>
                offset = reads[Len(reads)].offset + reads[Len(reads)].got
    /\ Len(reads) <= 1 + Len(out)

\* a full chunk followed by a shorter last one
C25_Witness ==
    /\ Done /\ resp.ok /\ Len(reads) = 2
    /\ reads[1].max_len = OBJSET_DATA_MAX_LIMIT /\ reads[1].got = OBJSET_DATA_MAX_LIMIT
    /\ reads[2].offset = range.start + OBJSET_DATA_MAX_LIMIT
    /\ reads[2].max_len = 1


C27_Bounded ==
    range # Pending =>
        /\ Len(reads) <= Total(range)
        /\ Len(out) <= Total(range)
        /\ pc = "read" => (offset >= range.start /\ offset <= range.end)

C27_LeaveOrAdvance ==
    reads' # reads => (pc' = "done" \/ (pc' = "read" /\ offset' >= offset + 1))

\* C27: the chunk loop terminates whatever the backend answers: an iteration
\* either leaves the loop or advances the offset by at least one byte, at most
\* end - start + 1 reads are issued and at most end - start + 1 bytes are
\* accumulated, and a loop that was entered is left.
C27_LoopTerminates ==
    []C27_Bounded /\ [][C27_LeaveOrAdvance]_vars /\ (pc = "read" ~> Done)

\* as many reads as bytes: the backend returned one byte per call
C27_Witness ==
    /\ Done /\ range # Pending /\ resp.ok
    /\ Total(range) = ZPL_DOWNLOAD_MAX_BYTES
    /\ Len(reads) = Total(range) /\ Len(out) = Total(range)


(***************************************************************************)
(* Properties of the locks, of a failed open and of a mode switch          *)
(* (checked under SpecConc and SpecConcLive)                               *)
(***************************************************************************)
AllDone == \A p \in Threads : cpc[p] = "done"

\* who holds which lock where: the FFI lock only inside a backend call, the
\* session lock only between the take and the end of the close or the open
C28_LockScopes ==
    \A p \in Threads :
        /\ ffi_lock = p => cpc[p] \in {"closing", "opening", "calling"}
        /\ pool_lock = p => cpc[p] \in {"close", "closing", "open", "opening"}
        /\ cpc[p] = "done" => (ffi_lock # p /\ pool_lock # p)

\* a thread that takes the session lock does not hold the FFI lock, and a
\* thread holding the FFI lock takes no lock
C28_AcquireOrder ==
    \A p \in Threads :
        /\ (pool_lock # p /\ pool_lock' = p) =>
              (pool_lock = 0 /\ ffi_lock # p /\ ffi_lock' # p)
        /\ (ffi_lock # p /\ ffi_lock' = p) => (ffi_lock = 0 /\ pool_lock' = pool_lock)

\* C28: the locks are nested only as session lock, then FFI lock; the FFI lock
\* is never held while another lock is taken; every set of concurrent export
\* and set_mode requests completes when each backend call returns.
C28_DeadlockFree == []C28_LockScopes /\ [][C28_AcquireOrder]_vars /\ <>AllDone

\* an export and a mode switch that closed the export's session both returned
C28_Witness ==
    /\ AllDone
    /\ \E p, q \in Threads :
          /\ req[p].kind = "export" /\ loc[p].ptr # 0
          /\ req[q].kind = "set_mode" /\ loc[q].old = loc[p].ptr


\* the handle in the shared state is never one of a closed session
C29_NoStaleHandle == pool.some => sessions[pool.v.ptr].open

\* the step on which an open fails, and what a request finds afterwards
C29_FailedOpen ==
    \A p \in Threads :
        /\ (cpc[p] = "opening" /\ cpc'[p] = "done") =>
              /\ pool' = None /\ pool_lock' = 0
              /\ sessions' = sessions
              /\ loc'[p].ptr = 0
              /\ loc[p].old # 0 => ~sessions'[loc[p].old].open
        /\ (cpc[p] = "lock" /\ cpc'[p] # "lock" /\ pool = None) =>
              (cpc'[p] = "open" /\ pool_lock' = p)

\* C29: a failed open does not leave the session state as it was: the session
\* that was open has been closed, the shared state holds no handle (never a
\* stale one), the error is returned, and the next ensure_pool, for any pool,
\* opens afresh.
C29_FailedOpenClearsSession == []C29_NoStaleHandle /\ [][C29_FailedOpen]_vars

\* an export for another pool whose open failed after it closed the open one
C29_Witness ==
    \E p \in Threads :
        /\ cpc[p] = "done" /\ req[p].kind = "export"
        /\ loc[p].old # 0 /\ loc[p].ptr = 0
        /\ sessions[loc[p].old].name # req[p].pool
        /\ ~sessions[loc[p].old].open
        /\ pool = None /\ pool_lock = 0


\* a set_mode call that changed the mode to the one now configured has returned
ModeSwitched ==
    \E q \in Threads :
        /\ req[q].kind = "set_mode" /\ cpc[q] = "done"
        /\ loc[q].changed /\ mode = req[q].mode

C30_InstalledUnderNewMode ==
    (ModeSwitched /\ pool.some) => sessions[pool.v.ptr].mode = mode

C30_UnchangedModeKeepsSession ==
    \A q \in Threads :
        (req[q].kind = "set_mode" /\ ~loc'[q].changed /\ cpc'[q] # cpc[q]) =>
            (pool' = pool /\ sessions' = sessions /\ mode' = mode)

\* C30: once a set_mode call that changed the mode has returned, a session held
\* in the shared state was opened under the new mode; a set_mode call that
\* does not change the mode leaves the open session untouched.
C30_ModeSwitchReplacesSession ==
    []C30_InstalledUnderNewMode /\ [][C30_UnchangedModeKeepsSession]_vars

====
